---- MODULE Spec2Model ----
(***************************************************************************)
(* LNCD-Agent: the staged, file-checkpointed crawl pipeline                *)
(* (search -> enrich -> classify -> compliance merge) over three sources,  *)
(* the Kaggle enrichment worker pool with its rate-limiting gate, and the  *)
(* classification-gate response parser.                                    *)
(***************************************************************************)
EXTENDS Integers, Sequences, FiniteSets, TLC

(***************************************************************************)
(* Bounds of the model.                                                    *)
(***************************************************************************)
\* longest capability response, in tokens
MaxLen == 5
\* most records in a raw artifact
MaxRecords == 2
\* most stage invocations against a mocked service
MaxRuns == 3
\* most 429/503 answers to one robust_request call
MaxAttempt == 1
\* the clock stops here
MaxTime == 16
\* most calls of rate_limited_get by one thread
MaxCalls == 2
\* most requests in one call of a client wrapper
MaxRequests == 6
\* the largest Retry-After value
MaxHint == 70
\* the longest time to the quota reset
MaxWait == 55
\* most tokens in an answer of the violation-detection capability
MaxAnswer == 6
\* most date windows of one code-host search
MaxWindows == 2
\* most repositories one code-host search finds over all its windows
MaxListing == 3
\* the last day of the calendar of a code-host search
MaxDay == 5
\* the longest date window, in days
MaxInterval == 2
\* most repositories in the code host's catalogue
MaxRepos == 2
\* most files and directories in a file tree, its root apart
MaxNodes == 4
\* how far below and above a ceiling the lengths of a content field go
MaxOver == 17
\* the largest max_pages of a paged search
MaxPages == 2
\* the page size of a paged search
MaxPerPage == 2
\* most requests of one paged search
MaxPageRequests == 5

VARIABLES
    \* ---- classification gate, one call
    response,           \* the capability's answer to one classification call
    result,             \* what check_downstream_usage returned for it
    \* ---- pipeline
    source,             \* the source the stages run for
    KEYWORD,            \* the keyword the stages run for
    fs,                 \* the artifact files, by <<name, keyword>>
    call,               \* the latest stage call: what it read, what it did
    step,               \* the position of the pass in the stage order
    runs,               \* stage invocations so far, under a mock
    mock,               \* the external service: live, or a fixed answer per record
    first,              \* under a mock: what the first enrichment run left
    \* ---- Kaggle enrichment: the worker pool
    _rate_lock,         \* 0 when free, else the thread holding it
    workers,            \* the pool's threads
    futures,            \* one future per submitted dataset
    processed_datasets, \* the list the main thread collects
    \* ---- rate_limited_get against the clock
    now,                \* time.time(), in seconds
    _last_request_time,
    callers,            \* the threads calling rate_limited_get
    last_done,          \* when the latest request through the gate completed
    \* ---- one call of a client wrapper; one run of the compiled graph
    client,             \* the call: its loop position, attempt counter, sleeps
    graph,              \* the run: the node it is at, the nodes it ran
    \* ---- one classification prompt; one paged search
    prompt,             \* a content field and the excerpt of it put in the prompt
    pager,              \* the search: its page, attempt counter, items, requests
    \* ---- one code-host search over its date windows; one walk of a file tree
    partition,          \* the dates, the windows searched, the results gathered
    walk                \* the tree and the paths the walk returned

parser_vars == <<response, result>>

stage_vars == <<source, KEYWORD, fs, call, step, runs, mock, first>>

pool_vars == <<workers, futures, processed_datasets>>

clock_vars == <<now, _last_request_time, callers, last_done>>

walk_vars == <<partition, walk>>

aux_vars == <<prompt, pager, walk_vars>>

side_vars == <<client, graph, aux_vars>>

vars == <<parser_vars, stage_vars, _rate_lock, pool_vars, clock_vars, side_vars>>

(***************************************************************************)
(* The capability's response text.  A response is a sequence of tokens;    *)
(* whitespace is left out: re's \s*, json.loads and the .strip() applied   *)
(* to the response all skip it.                                            *)
(*   FOPEN   ```json          FCLOSE  ```                                  *)
(*   LB  {    RB  }                                                        *)
(*   DOWN_T  "is_downstream": true    DOWN_F  "is_downstream": false       *)
(*   DOWN_S  "is_downstream": "no"    (a string, not a boolean)            *)
(*   REASON  "reason": "..."          (members are comma-separated)        *)
(*   NULL    the JSON literal null    JUNK  text that is no JSON           *)
(***************************************************************************)
Tokens ==
    {"FOPEN", "FCLOSE", "LB", "RB", "DOWN_T", "DOWN_F", "DOWN_S", "REASON", "NULL", "JUNK"}

Members == {"DOWN_T", "DOWN_F", "DOWN_S", "REASON"}

Texts == UNION {[1..n -> Tokens] : n \in 0..MaxLen}

\* a parsed JSON value / a verdict as stored in a record
EmptyDict == [kind |-> "object", is_downstream |-> "ABSENT", reason |-> "ABSENT"]

JsonNull == [kind |-> "null", is_downstream |-> "ABSENT", reason |-> "ABSENT"]

RECURSIVE ObjectOf(_, _)
\* the dict json.loads builds from the members s[i], s[i+1], ...: the last
\* occurrence of a key wins
ObjectOf(s, i) ==
    IF i > Len(s) THEN EmptyDict
    ELSE LET rest == ObjectOf(s, i + 1)
         IN  CASE s[i] = "DOWN_T" ->
                    IF rest.is_downstream = "ABSENT"
                    THEN [rest EXCEPT !.is_downstream = "true"] ELSE rest
               [] s[i] = "DOWN_F" ->
                    IF rest.is_downstream = "ABSENT"
                    THEN [rest EXCEPT !.is_downstream = "false"] ELSE rest
               [] s[i] = "DOWN_S" ->
                    IF rest.is_downstream = "ABSENT"
                    THEN [rest EXCEPT !.is_downstream = "string"] ELSE rest
               [] OTHER ->
                    IF rest.reason = "ABSENT"
                    THEN [rest EXCEPT !.reason = "llm"] ELSE rest

\* json.loads(s): [ok |-> FALSE] when it raises
json_loads(s) ==
    IF s = <<"NULL">> THEN [ok |-> TRUE, val |-> JsonNull]
    ELSE IF /\ Len(s) >= 2
            /\ s[1] = "LB"
            /\ s[Len(s)] = "RB"
            /\ \A i \in 2..(Len(s) - 1) : s[i] \in Members
         THEN [ok |-> TRUE, val |-> ObjectOf(SubSeq(s, 2, Len(s) - 1), 1)]
         ELSE [ok |-> FALSE, val |-> EmptyDict]

\* the closing ``` of the pattern also matches the first three characters
\* of a following ```json
IsTicks(tok) == tok \in {"FOPEN", "FCLOSE"}

\* the ends j of \{.*?\} for a match of the pattern that starts at token i
MatchEnds(s, i) ==
    IF i + 3 <= Len(s) /\ s[i] = "FOPEN" /\ s[i + 1] = "LB"
    THEN {j \in (i + 2)..(Len(s) - 1) : s[j] = "RB" /\ IsTicks(s[j + 1])}
    ELSE {}

Min(S) == CHOOSE x \in S : \A y \in S : x <= y

\* re.search(r"```json\s*(\{.*?\})\s*```", text, re.DOTALL): the leftmost
\* start, and from it the shortest group; group(1), or no match
re_search(s) ==
    LET starts == {i \in 1..Len(s) : MatchEnds(s, i) # {}}
    IN  IF starts = {} THEN [match |-> FALSE, group |-> <<>>]
        ELSE LET i == Min(starts)
             IN  [match |-> TRUE, group |-> SubSeq(s, i + 1, Min(MatchEnds(s, i)))]

extract_json_from_text(text) ==
    LET m == re_search(text)
    IN  IF m.match
        THEN IF json_loads(m.group).ok THEN json_loads(m.group).val ELSE EmptyDict
        ELSE IF json_loads(text).ok THEN json_loads(text).val ELSE EmptyDict

\* the verdict returned when the call to the capability raises
ErrorVerdict == [kind |-> "object", is_downstream |-> "false", reason |-> "error"]

\* an answer of the capability: the call raises, or returns content
Raises == [raises |-> TRUE, content |-> <<>>]

Answer(text) == [raises |-> FALSE, content |-> text]

\* a call with no except clause around the parsing of the answer
check_downstream_usage_unguarded(answer) == extract_json_from_text(answer.content)

\* check_downstream_usage, check_downstream_usage_hf and
\* check_downstream_usage_kaggle share this shape
check_downstream_usage(answer) ==
    IF answer.raises THEN ErrorVerdict
    ELSE extract_json_from_text(answer.content)

(***************************************************************************)
(* Artifacts.  A file is absent or holds a list of records; one record     *)
(* shape serves every stage, "ABSENT" marking a key the record lacks.      *)
(***************************************************************************)
Sources == {"github", "huggingface", "kaggle"}

Keywords == {"BRSET", "CelebA"}

Absent == [exists |-> FALSE, data |-> <<>>]

File(data) == [exists |-> TRUE, data |-> data]

NoVerdict == [kind |-> "ABSENT", is_downstream |-> "ABSENT", reason |-> "ABSENT"]

\* a raw listing record: only its identity key (full_name, id, ref) matters
RawRecord(id) ==
    [id |-> id, content |-> "ABSENT", files |-> "ABSENT", verdict |-> NoVerdict,
     has_violation |-> "ABSENT", violations |-> "ABSENT", citation |-> "ABSENT"]

\* the list a search saves when it found n listings
RawListing(n) == [i \in 1..n |-> RawRecord(i)]

\* the artifact names of each source: f"{name}_{KEYWORD}.json"
RawName(src) ==
    CASE src = "github" -> "github_repos"
      [] src = "huggingface" -> "huggingface_datasets"
      [] OTHER -> "kaggle_datasets"

EnrichedName(src) ==
    CASE src = "github" -> "processed_github_repos"
      [] src = "huggingface" -> "processed_huggingface"
      [] OTHER -> "processed_kaggle"

ClassifiedName(src) ==
    CASE src = "github" -> "final_processed_repos"
      [] src = "huggingface" -> "final_processed_huggingface"
      [] OTHER -> "final_processed_kaggle"

ViolationName(src) ==
    CASE src = "github" -> "violations_github"
      [] src = "huggingface" -> "violations_huggingface"
      [] OTHER -> "violations_kaggle"

ProfileName == "extracted_dataset_info_with_license_analysis"

\* the citation branch: f"cited_papers_{KEYWORD}.csv" and
\* f"Open_Source_Check_with_{KEYWORD}.csv"
CitedName == "cited_papers"

OpenSourceName == "Open_Source_Check_with"

\* the names fine_filter_huggingface of agent.py passes
AgentHfInput == "processed_huggingface_datasets"

AgentHfOutput == "final_processed_datasets"

FileNames ==
    {RawName(s) : s \in Sources} \cup {EnrichedName(s) : s \in Sources}
    \cup {ClassifiedName(s) : s \in Sources} \cup {ViolationName(s) : s \in Sources}
    \cup {ProfileName, AgentHfInput, AgentHfOutput, CitedName, OpenSourceName}

\* json.load of an input artifact inside try/except: the list, or nothing
Load(files, name, kw) == files[<<name, kw>>]

\* a write that goes to the file of that name of every keyword
save_for_every_keyword(files, name, kw, data) ==
    [f \in DOMAIN files |-> IF f[1] = name THEN File(data) ELSE files[f]]

\* json.dump to an output artifact: the file is replaced
Save(files, name, kw, data) == [files EXCEPT ![<<name, kw>>] = File(data)]

\* the record of a stage call
Called(stage, in_name, out_name, input, outs, status, wrote) ==
    [stage |-> stage, in_name |-> in_name, out_name |-> out_name,
     had_input |-> input.exists, input |-> input.data, outs |-> outs,
     status |-> status, wrote |-> wrote]

NoCall == Called("none", "none", "none", Absent, <<>>, "returned", FALSE)

\* what one record's secondary fetches met: the readme or card, the file listing
Fetched(content, files) == [content |-> content, files |-> files]

(***************************************************************************)
(* Search: each source's search saves whatever list it collected.          *)
(***************************************************************************)
search(src, kw, n) ==
    /\ fs' = Save(fs, RawName(src), kw, RawListing(n))
    /\ call' = Called("search", "none", RawName(src), Absent, <<>>, "returned", TRUE)

RECURSIVE SumFrom(_, _)
SumFrom(counts, i) == IF i > Len(counts) THEN 0 ELSE counts[i] + SumFrom(counts, i + 1)

\* search_github: partition_and_search extends all_results with each date
\* window's repositories, window after window, and the list is saved;
\* counts[w] is the number of repositories window w gave
search_github(kw) ==
    \E windows \in 1..MaxWindows :
        \E counts \in [1..windows -> 0..MaxRecords] :
            /\ SumFrom(counts, 1) <= MaxListing
            /\ fs' = Save(fs, RawName("github"), kw, RawListing(SumFrom(counts, 1)))
            /\ call' = Called("search", "none", RawName("github"), Absent, counts,
                              "returned", TRUE)

(***************************************************************************)
(* Enrichment, code host.  fetch_repo_readme ends with a 200 (the body,    *)
(* possibly empty), a 404, another status, or an exception that is not a   *)
(* requests exception (a quota header that is no integer).                 *)
(***************************************************************************)
ReadmeOutcomes == {"ok", "ok_empty", "not_found", "http_error", "raises"}

\* fetch_repo_readme: the text, or None
fetch_repo_readme(outcome) ==
    CASE outcome = "ok" -> "TEXT"
      [] outcome = "ok_empty" -> "EMPTY"
      [] OTHER -> "null"

process_repository(repo, outcome) ==
    LET readme_content == fetch_repo_readme(outcome)
    IN  [repo EXCEPT !.content = IF readme_content \in {"EMPTY", "null"}
                                  THEN "null" ELSE readme_content]

RECURSIVE process_repositories_from(_, _, _)
process_repositories_from(repos, outs, i) ==
    IF i > Len(repos) THEN [raised |-> FALSE, out |-> <<>>]
    ELSE IF outs[i].content = "raises" THEN [raised |-> TRUE, out |-> <<>>]
    ELSE LET rest == process_repositories_from(repos, outs, i + 1)
         IN  IF rest.raised THEN rest
             ELSE [raised |-> FALSE,
                   out |-> <<process_repository(repos[i], outs[i].content)>> \o rest.out]

process_repositories(repos, outs) == process_repositories_from(repos, outs, 1)

clean_github_data(kw) ==
    LET input == Load(fs, RawName("github"), kw)
        repos_data == IF input.exists THEN input.data ELSE <<>>
    IN  \E outs \in [1..Len(repos_data) -> {Fetched(c, "NA") : c \in ReadmeOutcomes}] :
            LET processed_data == process_repositories(repos_data, outs)
                out_name == EnrichedName("github")
            IN  IF repos_data # <<>>
                THEN IF processed_data.raised
                     THEN /\ fs' = fs
                          /\ call' = Called("enrich", RawName("github"), out_name,
                                            input, outs, "raised", FALSE)
                     ELSE /\ fs' = Save(fs, out_name, kw, processed_data.out)
                          /\ call' = Called("enrich", RawName("github"), out_name,
                                            input, outs, "returned", TRUE)
                ELSE /\ fs' = fs
                     /\ call' = Called("enrich", RawName("github"), out_name,
                                       input, outs, "returned", FALSE)

(***************************************************************************)
(* Enrichment, hub.  safe_request returns the response of a 200 or None;   *)
(* the tree listing's body is parsed with response.json() and indexed by   *)
(* 'type' and 'path' outside any try.                                      *)
(***************************************************************************)
CardOutcomes == {"ok", "http_error"}

TreeOutcomes == {"ok", "http_error", "malformed"}

\* a fetch that returns the body whatever the status
fetch_dataset_card_unchecked(outcome) == "TEXT"

fetch_dataset_card(outcome) == IF outcome = "ok" THEN "TEXT" ELSE "null"

fetch_recursive_file_paths(outcome) ==
    CASE outcome = "ok" -> "LIST"
      [] OTHER -> "EMPTYLIST"

RECURSIVE process_datasets_from(_, _, _)
process_datasets_from(data, outs, i) ==
    IF i > Len(data) THEN [raised |-> FALSE, out |-> <<>>]
    ELSE IF outs[i].files = "malformed" THEN [raised |-> TRUE, out |-> <<>>]
    ELSE LET rest == process_datasets_from(data, outs, i + 1)
             entry == [data[i] EXCEPT
                          !.content = fetch_dataset_card(outs[i].content),
                          !.files = fetch_recursive_file_paths(outs[i].files)]
         IN  IF rest.raised THEN rest
             ELSE [raised |-> FALSE, out |-> <<entry>> \o rest.out]

process_datasets(data, outs) == process_datasets_from(data, outs, 1)

clean_huggingface_data(kw) ==
    LET input == Load(fs, RawName("huggingface"), kw)
        datasets == IF input.exists THEN input.data ELSE <<>>
    IN  \E outs \in [1..Len(datasets) ->
                        {Fetched(c, f) : c \in CardOutcomes, f \in TreeOutcomes}] :
            LET processed == process_datasets(datasets, outs)
                out_name == EnrichedName("huggingface")
            IN  IF datasets # <<>>
                THEN IF processed.raised
                     THEN /\ fs' = fs
                          /\ call' = Called("enrich", RawName("huggingface"), out_name,
                                            input, outs, "raised", FALSE)
                     ELSE /\ fs' = Save(fs, out_name, kw, processed.out)
                          /\ call' = Called("enrich", RawName("huggingface"), out_name,
                                            input, outs, "returned", TRUE)
                ELSE /\ fs' = fs
                     /\ call' = Called("enrich", RawName("huggingface"), out_name,
                                       input, outs, "returned", FALSE)


(***************************************************************************)
(* Classification.  Each record's verdict is what check_downstream_usage   *)
(* made of the capability's answer.                                        *)
(***************************************************************************)
\* answers of the capability: a raise, a bare object, a fenced object, an
\* object whose is_downstream is a string, text that is no JSON, a bare JSON
\* value that is no object
ClassifyAnswers ==
    {Raises,
     Answer(<<"LB", "DOWN_T", "REASON", "RB">>),
     Answer(<<"FOPEN", "LB", "DOWN_F", "RB", "FCLOSE">>),
     Answer(<<"LB", "DOWN_S", "RB">>),
     Answer(<<"JUNK">>),
     Answer(<<"NULL">>)}

\* the entry each source's loop stores for a record: the code host sets
\* repo['downstream_usage'] in place, the hub keeps id, license and
\* dataset_card, the competition catalog keeps ref, title and license
classified_entry(src, ds, downstream_result) ==
    CASE src = "github" -> [ds EXCEPT !.verdict = downstream_result]
      [] src = "huggingface" ->
            [RawRecord(ds.id) EXCEPT !.content = ds.content, !.verdict = downstream_result]
      [] OTHER -> [RawRecord(ds.id) EXCEPT !.verdict = downstream_result]

\* a loop that skips the records whose call to the capability raised
classify_records_skipping(src, datasets, answers) ==
    LET kept == SelectSeq([i \in 1..Len(datasets) |-> i], LAMBDA i : ~answers[i].raises)
    IN  [k \in 1..Len(kept) |->
            classified_entry(src, datasets[kept[k]], check_downstream_usage(answers[kept[k]]))]

classify_records(src, datasets, answers) ==
    [i \in 1..Len(datasets) |->
        classified_entry(src, datasets[i], check_downstream_usage(answers[i]))]

\* process_repos_file, process_datasets_file, process_kaggle_datasets_file
process_file(src, input_filename, output_filename, kw) ==
    LET input == Load(fs, input_filename, kw)
    IN  IF ~input.exists
        THEN /\ fs' = fs
             /\ call' = Called("classify", input_filename, output_filename,
                               input, <<>>, "returned", FALSE)
        ELSE \E answers \in [1..Len(input.data) -> ClassifyAnswers] :
                /\ fs' = Save(fs, output_filename, kw,
                              classify_records(src, input.data, answers))
                /\ call' = Called("classify", input_filename, output_filename,
                                  input, answers, "returned", TRUE)

\* the module's own entry point names the artifacts of the neighbouring
\* stages; agent.py's fine_filter_huggingface names two other files
fine_filter(src, kw) ==
    \/ process_file(src, EnrichedName(src), ClassifiedName(src), kw)
    \/ /\ src = "huggingface"
       /\ process_file(src, AgentHfInput, AgentHfOutput, kw)

(***************************************************************************)
(* License formalization writes the keyword's license profile.             *)
(***************************************************************************)
Citations == {"profile"}

\* license_analysis: the flags of a known or analysed license, or the error
\* string detect_license_rules returns
Analyses == {"open_source", "not_open_source", "error_string"}

original_license_formalization(kw) ==
    \E citation \in Citations, license_analysis \in Analyses :
        /\ fs' = Save(fs, ProfileName, kw,
                      <<[citation |-> citation, license_analysis |-> license_analysis]>>)
        /\ call' = Called("formalize", "none", ProfileName, Absent, <<>>, "returned", TRUE)

(***************************************************************************)
(* Compliance merge.                                                       *)
(***************************************************************************)
\* The answer of the violation-detection capability is a sequence of tokens:
\*   FOPEN  ```json     FCLOSE  ```     LB  {     RB  }
\*   HAS_T  "has_violation": true       HAS_F  "has_violation": false
\*   VIOLS  "violations": [...]         NULL   a JSON value that is no object
VTokens == {"FOPEN", "FCLOSE", "LB", "RB", "HAS_T", "HAS_F", "VIOLS", "NULL"}

VMembers == {"HAS_T", "HAS_F", "VIOLS"}

VTexts == UNION {[1..n -> VTokens] : n \in 0..MaxAnswer}

\* the dict {}
NoViolationInfo == [has_violation |-> "ABSENT", violations |-> "ABSENT"]

\* {"has_violation": False, "violations": []}
DefaultViolation == [has_violation |-> "false", violations |-> "EMPTYLIST"]

RECURSIVE ViolationObjectOf(_, _)
\* the dict json.loads builds from the members s[i], s[i+1], ...
ViolationObjectOf(s, i) ==
    IF i > Len(s) THEN NoViolationInfo
    ELSE LET rest == ViolationObjectOf(s, i + 1)
         IN  CASE s[i] = "HAS_T" ->
                    IF rest.has_violation = "ABSENT"
                    THEN [rest EXCEPT !.has_violation = "true"] ELSE rest
               [] s[i] = "HAS_F" ->
                    IF rest.has_violation = "ABSENT"
                    THEN [rest EXCEPT !.has_violation = "false"] ELSE rest
               [] OTHER ->
                    IF rest.violations = "ABSENT"
                    THEN [rest EXCEPT !.violations = "LIST"] ELSE rest

\* json.loads(json_str): ok is FALSE when it raises JSONDecodeError, dict is
\* isinstance(result, dict)
violation_json_loads(s) ==
    IF s = <<"NULL">> THEN [ok |-> TRUE, dict |-> FALSE, val |-> NoViolationInfo]
    ELSE IF /\ Len(s) >= 2
            /\ s[1] = "LB"
            /\ s[Len(s)] = "RB"
            /\ \A i \in 2..(Len(s) - 1) : s[i] \in VMembers
         THEN [ok |-> TRUE, dict |-> TRUE,
               val |-> ViolationObjectOf(SubSeq(s, 2, Len(s) - 1), 1)]
         ELSE [ok |-> FALSE, dict |-> FALSE, val |-> NoViolationInfo]

\* re.search(r"```json\s*(.*?)\s*```", answer, re.DOTALL): the leftmost
\* ```json that has ``` after it, and the text up to the first such ```
fence_search(s) ==
    LET closes(i) == {j \in (i + 1)..Len(s) : IsTicks(s[j])}
        starts == {i \in 1..Len(s) : s[i] = "FOPEN" /\ closes(i) # {}}
    IN  IF starts = {} THEN [match |-> FALSE, group |-> <<>>]
        ELSE LET i == Min(starts)
             IN  [match |-> TRUE, group |-> SubSeq(s, i + 1, Min(closes(i)) - 1)]

\* a check that takes any value json.loads returns
parsed_at_all(parsed) == parsed.ok

\* isinstance(result, dict) and both keys in result
has_expected_keys(parsed) ==
    /\ parsed.dict
    /\ parsed.val.has_violation # "ABSENT"
    /\ parsed.val.violations # "ABSENT"

check_license_violation_with_openai(answer) ==
    IF answer.raises \/ answer.content = <<>> THEN DefaultViolation
    ELSE LET match == fence_search(answer.content)
             json_str == IF match.match THEN match.group ELSE answer.content
             parsed == violation_json_loads(json_str)
         IN  IF ~parsed.ok THEN DefaultViolation
             ELSE IF ~has_expected_keys(parsed) THEN DefaultViolation
             ELSE parsed.val

\* what the capability answers in a merge: a raise, an object finding no
\* violation, an object listing violations
ViolationAnswers ==
    {Raises,
     Answer(<<"LB", "HAS_F", "VIOLS", "RB">>),
     Answer(<<"LB", "HAS_T", "VIOLS", "RB">>)}

\* dataset_record.get("downstream_usage", {}).get("is_downstream", False):
\* a verdict that is no object has no get; a non-empty string is truthy
is_marked(dataset_record) ==
    CASE dataset_record.verdict.kind = "null" -> "raises"
      [] dataset_record.verdict.is_downstream \in {"true", "string"} -> "yes"
      [] OTHER -> "no"

\* a merge that writes the profile's citation over the record's own
updated_record_overwriting(src, dataset_record, original_info, answer) ==
    LET violation_info == check_license_violation_with_openai(answer)
    IN  [dataset_record EXCEPT !.has_violation = violation_info.has_violation,
                               !.violations = violation_info.violations,
                               !.citation = original_info.citation]

updated_record(src, dataset_record, original_info, answer) ==
    LET violation_info == check_license_violation_with_openai(answer)
        with_info == [dataset_record EXCEPT
                         !.has_violation = violation_info.has_violation,
                         !.violations = violation_info.violations]
    IN  IF src = "github" /\ dataset_record.citation \in {"ABSENT", "EMPTY"}
        THEN [with_info EXCEPT !.citation = original_info.citation]
        ELSE with_info

RECURSIVE analyze_from(_, _, _, _, _)
analyze_from(src, downstream_datasets, original_info, answers, i) ==
    IF i > Len(downstream_datasets) THEN [raised |-> FALSE, out |-> <<>>]
    ELSE LET marked == is_marked(downstream_datasets[i])
             rest == analyze_from(src, downstream_datasets, original_info, answers, i + 1)
         IN  IF marked = "raises" \/ rest.raised THEN [raised |-> TRUE, out |-> <<>>]
             ELSE IF marked = "no" THEN rest
             ELSE [raised |-> FALSE,
                   out |-> <<updated_record(src, downstream_datasets[i],
                                            original_info, answers[i])>> \o rest.out]

analyze_downstream_usage(src, downstream_datasets, original_info, answers) ==
    analyze_from(src, downstream_datasets, original_info, answers, 1)

\* check_github and check_huggingface open both files outside any try
check(src, kw) ==
    LET profile == Load(fs, ProfileName, kw)
        input == Load(fs, ClassifiedName(src), kw)
    IN  IF ~profile.exists \/ ~input.exists
        THEN /\ fs' = fs
             /\ call' = Called("merge", ClassifiedName(src), ViolationName(src),
                               input, <<>>, "raised", FALSE)
        ELSE \E answers \in [1..Len(input.data) -> ViolationAnswers] :
                LET updated_records ==
                        analyze_downstream_usage(src, input.data, profile.data[1], answers)
                IN  IF updated_records.raised
                    THEN /\ fs' = fs
                         /\ call' = Called("merge", ClassifiedName(src), ViolationName(src),
                                           input, answers, "raised", FALSE)
                    ELSE /\ fs' = Save(fs, ViolationName(src), kw, updated_records.out)
                         /\ call' = Called("merge", ClassifiedName(src), ViolationName(src),
                                           input, answers, "returned", TRUE)

(***************************************************************************)
(* The citation branch: compliance_citation of agent.py.  The profile and  *)
(* the cited-papers table are opened outside any try.                      *)
(***************************************************************************)
check_open_source(files, kw) ==
    IF Load(files, CitedName, kw).exists
    THEN [raised |-> FALSE, files |-> Save(files, OpenSourceName, kw, <<>>)]
    ELSE [raised |-> TRUE, files |-> files]

compliance_citation(kw) ==
    LET profile == Load(fs, ProfileName, kw)
    IN  IF ~profile.exists \/ profile.data[1].license_analysis = "error_string"
        THEN /\ fs' = fs
             /\ call' = Called("open_source", ProfileName, OpenSourceName,
                               profile, <<>>, "raised", FALSE)
        ELSE IF profile.data[1].license_analysis = "open_source"
        THEN \* crawl_citation saves the table, check_open_source reads it
             LET done == check_open_source(Save(fs, CitedName, kw, <<>>), kw)
             IN  /\ fs' = done.files
                 /\ call' = Called("open_source", ProfileName, OpenSourceName, profile, <<>>,
                                   IF done.raised THEN "raised" ELSE "returned", ~done.raised)
        ELSE /\ fs' = fs
             /\ call' = Called("open_source", ProfileName, OpenSourceName,
                               profile, <<>>, "returned", FALSE)

(***************************************************************************)
(* Enrichment, competition catalog: process_kaggle_datasets_file runs      *)
(* process_kaggle_dataset on a pool of max_workers threads; every request  *)
(* goes through rate_limited_get, which holds _rate_lock around it.  The   *)
(* pool is modelled without the clock: a sleep is a state the thread       *)
(* leaves at some later step.                                              *)
(***************************************************************************)
max_workers == 2

Pool == 1..max_workers

\* what requests.get does: raise, or answer 200 (a body as expected, a body
\* that is no JSON, a JSON body whose datasetFiles entries have no 'name'),
\* 429, 503 or another status
Responses == {"exception", "ok", "bad_json", "bad_shape", "429", "503", "http_error"}

Transient == {"429", "503"}

\* the live service answers anything; a mock answers each dataset's
\* requests the same way every time
Live == [live |-> TRUE, answers |-> <<>>]

Mocks == {[live |-> FALSE, answers |-> a] : a \in [1..MaxRecords -> Responses \ Transient]}

IdleThread == [pc |-> "idle", task |-> 0, phase |-> "none", attempt |-> 0, card |-> "ABSENT"]

Future(state, rec) ==
    [state |-> state, rec |-> rec, collected |-> FALSE, fetched |-> Fetched("none", "none")]

Running == call.stage = "enrich" /\ call.status = "running"

\* a pool thread takes the oldest queued work item and enters
\* process_kaggle_dataset, get_kaggle_dataset_card, robust_request
TakeTask(w) ==
    /\ Running
    /\ workers[w].pc = "idle"
    /\ \E i \in 1..Len(futures) :
          /\ futures[i].state = "queued"
          /\ \A j \in 1..(i - 1) : futures[j].state # "queued"
          /\ futures' = [futures EXCEPT ![i].state = "running"]
          /\ workers' = [workers EXCEPT ![w] =
                            [IdleThread EXCEPT !.pc = "lock", !.task = i, !.phase = "card"]]
    /\ UNCHANGED <<side_vars, parser_vars, stage_vars, _rate_lock, processed_datasets, clock_vars>>

\* a gate that lets a thread in without looking at the lock
lock_not_checked(w) == TRUE

\* with _rate_lock: a threading.Lock, which its own holder cannot take
\* again.  Inside, the thread waits out the interval and sends the request
lock_is_free(w) == _rate_lock = 0

Acquire(w) ==
    /\ workers[w].pc = "lock"
    /\ lock_is_free(w)
    /\ _rate_lock' = w
    /\ workers' = [workers EXCEPT ![w].pc = "inflight"]
    /\ UNCHANGED <<side_vars, parser_vars, stage_vars, futures, processed_datasets, clock_vars>>

\* get_kaggle_dataset_card: data.get("description", "")
get_kaggle_dataset_card(status) ==
    IF status \in {"ok", "bad_shape"} THEN "TEXT" ELSE "EMPTY"

\* get_kaggle_dataset_files: [file["name"] for file in data.get("datasetFiles", [])]
get_kaggle_dataset_files(status) ==
    CASE status = "ok" -> "LIST"
      [] status = "bad_shape" -> "raises"
      [] OTHER -> "EMPTYLIST"

\* a lock that stays with the thread after the response
held_by(w) == w

\* the lock after rate_limited_get returned its response
released(w) == 0

\* robust_request's branch on the status of the response, then
\* process_kaggle_dataset: 429 and 503 sleep and loop; anything else ends
\* the call, the card's being followed by a pause and the files' by the return
AfterResponse(w, th, status) ==
    IF status \in Transient
    THEN /\ workers' = [workers EXCEPT ![w] =
                [th EXCEPT !.pc = "backoff", !.attempt = th.attempt + 1]]
         /\ futures' = futures
    ELSE IF th.phase = "card"
    THEN /\ workers' = [workers EXCEPT ![w] =
                [th EXCEPT !.pc = "pause", !.card = get_kaggle_dataset_card(status)]]
         /\ futures' = [futures EXCEPT ![th.task].fetched.content = status]
    ELSE LET files == get_kaggle_dataset_files(status)
         IN  /\ workers' = [workers EXCEPT ![w] = IdleThread]
             /\ futures' = [futures EXCEPT ![th.task] =
                    IF files = "raises"
                    THEN [@ EXCEPT !.state = "failed", !.fetched.files = status]
                    ELSE [@ EXCEPT !.state = "done", !.fetched.files = status,
                                   !.rec.content = th.card, !.rec.files = files]]

\* requests.get raises, or returns: then _last_request_time is set, the
\* with block is left and robust_request looks at the response
Respond(w) ==
    /\ workers[w].pc = "inflight"
    /\ \E status \in Responses :
          /\ IF mock.live
             THEN status \in Transient => workers[w].attempt < MaxAttempt
             ELSE status = mock.answers[workers[w].task]
          /\ IF status = "exception"
             THEN /\ workers' = [workers EXCEPT ![w].pc = "exc_sleep"]
                  /\ UNCHANGED <<_rate_lock, futures>>
             ELSE /\ _rate_lock' = released(w)
                  /\ AfterResponse(w, workers[w], status)
    /\ UNCHANGED <<side_vars, parser_vars, stage_vars, processed_datasets, clock_vars>>

\* time.sleep returns.  After a network error the thread calls
\* rate_limited_get again from inside the with block, the lock still held;
\* after a backoff robust_request loops; after the pause comes
\* get_kaggle_dataset_files
Wake(w) ==
    /\ workers[w].pc \in {"exc_sleep", "backoff", "pause"}
    /\ workers' = [workers EXCEPT ![w] =
          IF @.pc = "pause"
          THEN [@ EXCEPT !.pc = "lock", !.phase = "files", !.attempt = 0]
          ELSE [@ EXCEPT !.pc = "lock"]]
    /\ UNCHANGED <<side_vars, parser_vars, stage_vars, _rate_lock, futures, processed_datasets,
                   clock_vars>>

\* process_kaggle_datasets_file up to the submission of the work items
StartKaggle(kw) ==
    LET input == Load(fs, RawName("kaggle"), kw)
    IN  /\ IF input.exists
           THEN /\ call' = Called("enrich", RawName("kaggle"), EnrichedName("kaggle"),
                                  input, <<>>, "running", FALSE)
                /\ futures' = [i \in 1..Len(input.data) |-> Future("queued", input.data[i])]
           ELSE /\ call' = Called("enrich", RawName("kaggle"), EnrichedName("kaggle"),
                                  input, <<>>, "returned", FALSE)
                /\ futures' = <<>>
        /\ processed_datasets' = <<>>
        /\ fs' = fs

\* for future in as_completed(futures): a finished future is taken; its
\* result is appended, its exception is printed
Collect ==
    /\ Running
    /\ \E i \in 1..Len(futures) :
          /\ futures[i].state \in {"done", "failed"}
          /\ ~futures[i].collected
          /\ futures' = [futures EXCEPT ![i].collected = TRUE]
          /\ processed_datasets' =
                IF futures[i].state = "done"
                THEN Append(processed_datasets, futures[i].rec)
                ELSE processed_datasets
    /\ UNCHANGED <<side_vars, parser_vars, stage_vars, _rate_lock, workers, clock_vars>>

\* what a run under a mock leaves for the comparison with a second run
Snapshot(input, data) == [taken |-> TRUE, input |-> input, output |-> data]

NoSnapshot == [taken |-> FALSE, input |-> <<>>, output |-> <<>>]

\* every future was taken: the list is saved
FinishKaggle ==
    /\ Running
    /\ \A i \in 1..Len(futures) : futures[i].collected
    /\ fs' = Save(fs, EnrichedName("kaggle"), KEYWORD, processed_datasets)
    /\ call' = [call EXCEPT !.status = "returned", !.wrote = TRUE,
                            !.outs = [i \in 1..Len(futures) |-> futures[i].fetched]]
    /\ first' = IF mock.live \/ first.taken THEN first
                ELSE Snapshot(call.input, processed_datasets)
    \* the function's locals are gone
    /\ futures' = <<>>
    /\ processed_datasets' = <<>>
    /\ UNCHANGED <<side_vars, parser_vars, source, KEYWORD, step, runs, mock, _rate_lock, workers,
                   clock_vars>>

(***************************************************************************)
(* The client wrappers: one call of a wrapper is a loop of requests.  Each *)
(* response is met by a return, a sleep followed by the next request, an   *)
(* exception leaving the wrapper, or (robust_request on a network error)   *)
(* the recursive rate_limited_get that never returns.                      *)
(***************************************************************************)
Clients ==
    {"search_repositories_with_date_range", "fetch_repo_readme",
     "search_datasets_by_keyword_hf", "safe_request",
     "search_datasets_by_keyword_kaggle", "robust_request"}

\* "quota": a response telling that the remaining quota is 0
\* (X-RateLimit-Remaining: 0; for the search a 403 with "rate limit" in it);
\* "403": a 403 that tells nothing about the quota
Statuses == {"200", "429", "503", "500", "403", "404", "quota", "exception"}

\* only the code host's clients read the quota headers; "quota" is a 403
\* whose X-RateLimit-Remaining is 0, "200_quota" a 200 whose
\* X-RateLimit-Remaining is 0, which only fetch_repo_readme tells from a 200
StatusesOf(name) ==
    CASE name = "fetch_repo_readme" -> Statuses \cup {"200_quota"}
      [] name = "search_repositories_with_date_range" -> Statuses
      [] OTHER -> Statuses \ {"quota"}

\* the response carries no Retry-After header
NoHint == -1

Hints == {NoHint, 1, MaxHint}

\* max(reset - time.time(), 0)
Waits == {0, MaxWait}

\* time.sleep(10) after a network error
error_sleep == 10

default_retry_after == 5

initial_delay == 10

backoff_factor == 2

max_retries == 5

wait_ceiling == 60

wait_floor == 5

\* the first sleep of the competition search on a 503
unavailable_base == 5

quota_margin == 5

Max(S) == CHOOSE x \in S : \A y \in S : x >= y

\* int(response.headers.get("Retry-After", default))
retry_after_of(hint, default) == IF hint = NoHint THEN default ELSE hint

Return(outcome, attempt) ==
    [do |-> "return", outcome |-> outcome, dur |-> 0, attempt |-> attempt]

Sleep(dur, attempt) == [do |-> "sleep", outcome |-> "none", dur |-> dur, attempt |-> attempt]

Leave(do, attempt) == [do |-> do, outcome |-> "none", dur |-> 0, attempt |-> attempt]

\* the while loop of fetch_repo_readme
fetch_repo_readme_loop(status, hint, wait, attempt) ==
    CASE status \in {"quota", "200_quota", "403", "429"} ->
            Sleep(wait + quota_margin, attempt)
      [] status = "200" -> Return("ok", attempt)
      [] status = "exception" -> Sleep(error_sleep, attempt)
      [] OTHER -> Return("sentinel", attempt)

\* the retry loop of one page of search_repositories_with_date_range, with
\* check_rate_limit
search_repositories_with_date_range(status, hint, wait, attempt) ==
    CASE status = "quota" -> Sleep(wait + quota_margin, attempt)
      [] status = "200" -> Return("ok", attempt)
      [] status = "exception" -> Leave("raise", attempt)
      [] OTHER -> Return("sentinel", attempt)

\* coarse_search/crawl_huggingface.py: for attempt in range(max_retries)
search_datasets_by_keyword_hf(status, hint, wait, attempt) ==
    CASE status = "200" -> Return("ok", attempt)
      [] status = "429" ->
            LET retry_after == retry_after_of(hint, default_retry_after)
            IN  Sleep(Min({retry_after * (2 ^ attempt), wait_ceiling}), attempt + 1)
      [] status = "exception" -> Leave("raise", attempt)
      [] OTHER -> Return("sentinel", attempt)

safe_request(status, hint, wait, attempt) ==
    CASE status = "200" -> Return("ok", attempt)
      [] status = "429" ->
            Sleep(retry_after_of(hint, default_retry_after) * backoff_factor, attempt)
      [] status \in {"500", "503"} -> Sleep(backoff_factor ^ attempt, attempt + 1)
      [] status = "exception" -> Sleep(error_sleep, attempt)
      [] OTHER -> Return("sentinel", attempt)

\* coarse_search/crawl_kaggle.py: the retry loop of one page
search_datasets_by_keyword_kaggle(status, hint, wait, attempt) ==
    CASE status = "200" -> Return("ok", attempt)
      [] status = "429" ->
            LET retry_after == retry_after_of(hint, default_retry_after)
            IN  Sleep(Max({retry_after * (2 ^ attempt), wait_floor}), attempt + 1)
      [] status = "503" -> Sleep(unavailable_base * (2 ^ attempt), attempt + 1)
      [] status = "exception" -> Sleep(error_sleep, attempt + 1)
      [] OTHER -> Return("sentinel", attempt)

\* a network error never comes back from rate_limited_get
robust_request(status, hint, wait, attempt) ==
    CASE status = "200" -> Return("ok", attempt)
      [] status = "429" ->
            Sleep(retry_after_of(hint, initial_delay) * (2 ^ attempt), attempt + 1)
      [] status = "503" -> Sleep(initial_delay * (2 ^ attempt), attempt + 1)
      [] status = "exception" -> Leave("block", attempt)
      [] OTHER -> Return("sentinel", attempt)

on_response(name, status, hint, wait, attempt) ==
    CASE name = "fetch_repo_readme" -> fetch_repo_readme_loop(status, hint, wait, attempt)
      [] name = "search_repositories_with_date_range" ->
            search_repositories_with_date_range(status, hint, wait, attempt)
      [] name = "search_datasets_by_keyword_hf" ->
            search_datasets_by_keyword_hf(status, hint, wait, attempt)
      [] name = "safe_request" -> safe_request(status, hint, wait, attempt)
      [] name = "search_datasets_by_keyword_kaggle" ->
            search_datasets_by_keyword_kaggle(status, hint, wait, attempt)
      [] OTHER -> robust_request(status, hint, wait, attempt)

NoSleep == [cause |-> "none", dur |-> 0, retries |-> 0]

NewCall(name, hint) ==
    [name |-> name, hint |-> hint, pc |-> "request", attempt |-> 0, requests |-> 0,
     last_status |-> "none", outcome |-> "none", prev |-> NoSleep, last |-> NoSleep]

NoClient == [NewCall("none", NoHint) EXCEPT !.pc = "idle"]

\* requests.get ends and the wrapper acts on it
ClientRespond ==
    /\ client.pc = "request"
    /\ client.requests < MaxRequests
    /\ \E status \in StatusesOf(client.name), wait \in Waits :
          LET r == on_response(client.name, status, client.hint, wait, client.attempt)
          IN  client' =
                [client EXCEPT
                    !.requests = @ + 1,
                    !.last_status = status,
                    !.attempt = r.attempt,
                    !.outcome = r.outcome,
                    !.pc = CASE r.do = "return" -> "returned"
                             [] r.do = "sleep" -> "sleeping"
                             [] r.do = "raise" -> "raised"
                             [] OTHER -> "blocked",
                    !.prev = IF r.do = "sleep" THEN client.last ELSE @,
                    !.last = IF r.do = "sleep"
                             THEN [cause |-> status, dur |-> r.dur,
                                   retries |-> client.requests]
                             ELSE @]
    /\ UNCHANGED <<parser_vars, stage_vars, _rate_lock, pool_vars, clock_vars, graph, aux_vars>>

\* time.sleep returns: the request is sent again, unless the hub search has
\* used up its attempts
\* a loop with no bound on its attempts
never_gives_up(name, attempt) == FALSE

\* for attempt in range(max_retries) is over
gives_up(name, attempt) ==
    name = "search_datasets_by_keyword_hf" /\ attempt >= max_retries

ClientWake ==
    /\ client.pc = "sleeping"
    /\ client' =
          IF gives_up(client.name, client.attempt)
          THEN [client EXCEPT !.pc = "returned", !.outcome = "sentinel"]
          ELSE [client EXCEPT !.pc = "request"]
    /\ UNCHANGED <<parser_vars, stage_vars, _rate_lock, pool_vars, clock_vars, graph, aux_vars>>

\* search_huggingface: whatever list search_datasets_by_keyword returned is
\* saved, the items of the 200 response or the [] of a failure
search_huggingface ==
    /\ client.name = "search_datasets_by_keyword_hf"
    /\ client.pc = "returned"
    /\ \E n \in 0..MaxRecords :
          LET datasets == IF client.outcome = "ok" THEN RawListing(n) ELSE <<>>
          IN  fs' = Save(fs, RawName("huggingface"), KEYWORD, datasets)
    /\ call' = Called("search", "none", RawName("huggingface"), Absent, <<>>,
                      "returned", TRUE)
    /\ client' = [client EXCEPT !.pc = "saved"]
    /\ UNCHANGED <<parser_vars, source, KEYWORD, step, runs, mock, first, _rate_lock,
                   pool_vars, clock_vars, graph, aux_vars>>

(***************************************************************************)
(* The stages as a caller invokes them, one at a time.  The pipeline runs  *)
(* one pass over the stages in their order, any subset of them; a harness  *)
(* with a mocked service may run any stage again.                          *)
(***************************************************************************)
Idle == call.status # "running"

Invoke(position, stage) ==
    /\ Idle
    /\ IF mock.live THEN step < position ELSE runs < MaxRuns
    /\ step' = IF mock.live THEN position ELSE step
    /\ runs' = IF mock.live THEN runs ELSE runs + 1
    /\ stage
    /\ UNCHANGED <<side_vars, parser_vars, source, KEYWORD, mock, first, _rate_lock, clock_vars>>

SearchStage ==
    Invoke(1, (\E n \in 0..MaxRecords : search(source, KEYWORD, n)) /\ UNCHANGED pool_vars)

EnrichGithub ==
    Invoke(2, source = "github" /\ clean_github_data(KEYWORD) /\ UNCHANGED pool_vars)

EnrichHuggingface ==
    Invoke(2, source = "huggingface" /\ clean_huggingface_data(KEYWORD)
              /\ UNCHANGED pool_vars)

EnrichKaggle ==
    Invoke(2, source = "kaggle" /\ StartKaggle(KEYWORD) /\ UNCHANGED workers)

ClassifyStage == Invoke(3, fine_filter(source, KEYWORD) /\ UNCHANGED pool_vars)

FormalizeStage == Invoke(4, original_license_formalization(KEYWORD) /\ UNCHANGED pool_vars)

MergeStage ==
    Invoke(5, source \in {"github", "huggingface"} /\ check(source, KEYWORD)
              /\ UNCHANGED pool_vars)

CitationStage == Invoke(6, compliance_citation(KEYWORD) /\ UNCHANGED pool_vars)

(***************************************************************************)
(* The compiled graph of agent.py.  builder.compile() keeps the nodes and  *)
(* the edges added by the add_edge calls that are not commented out.  A    *)
(* run proceeds in supersteps: the nodes triggered by the last superstep   *)
(* all start, all finish, and their successors are triggered next; an      *)
(* exception in a node ends the run.                                       *)
(***************************************************************************)
Nodes ==
    {"Corse Search Kaggle", "Corse Search Huggingface", "Corse Search Github",
     "Process Kaggle", "Process Huggingface", "Process Github",
     "Fine Filter Kaggle", "Fine Filter Huggingface", "Fine Filter Github",
     "Original License Formalization",
     "Compliance Kaggle", "Compliance Huggingface", "Compliance Github",
     "Compliance Open Source"}

Edges ==
    {<<"START", "Original License Formalization">>,
     <<"Original License Formalization", "Compliance Open Source">>,
     <<"Compliance Open Source", "END">>}

Successors(S) == {e[2] : e \in {d \in Edges : d[1] \in S}}

\* the function registered for a node by add_node; check_kaggle is imported
\* from a module that is not in the tree and is taken to be as check
node_function(n) ==
    CASE n = "Corse Search Kaggle" ->
            (\E k \in 0..MaxRecords : search("kaggle", KEYWORD, k)) /\ UNCHANGED pool_vars
      [] n = "Corse Search Huggingface" ->
            (\E k \in 0..MaxRecords : search("huggingface", KEYWORD, k))
            /\ UNCHANGED pool_vars
      [] n = "Corse Search Github" ->
            (\E k \in 0..MaxRecords : search("github", KEYWORD, k)) /\ UNCHANGED pool_vars
      [] n = "Process Kaggle" -> StartKaggle(KEYWORD) /\ UNCHANGED workers
      [] n = "Process Huggingface" -> clean_huggingface_data(KEYWORD) /\ UNCHANGED pool_vars
      [] n = "Process Github" -> clean_github_data(KEYWORD) /\ UNCHANGED pool_vars
      [] n = "Fine Filter Kaggle" -> fine_filter("kaggle", KEYWORD) /\ UNCHANGED pool_vars
      [] n = "Fine Filter Huggingface" ->
            fine_filter("huggingface", KEYWORD) /\ UNCHANGED pool_vars
      [] n = "Fine Filter Github" -> fine_filter("github", KEYWORD) /\ UNCHANGED pool_vars
      [] n = "Original License Formalization" ->
            original_license_formalization(KEYWORD) /\ UNCHANGED pool_vars
      [] n = "Compliance Kaggle" -> check("kaggle", KEYWORD) /\ UNCHANGED pool_vars
      [] n = "Compliance Huggingface" -> check("huggingface", KEYWORD) /\ UNCHANGED pool_vars
      [] n = "Compliance Github" -> check("github", KEYWORD) /\ UNCHANGED pool_vars
      [] OTHER -> compliance_citation(KEYWORD) /\ UNCHANGED pool_vars

\* triggered: the nodes of the current superstep; started and finished: the
\* nodes in the order they started and finished over the whole run
NewRun ==
    [phase |-> "ready", triggered |-> {}, running |-> {}, started |-> <<>>,
     finished |-> <<>>]

NoGraph == [NewRun EXCEPT !.phase = "idle"]

graph_frame == <<client, aux_vars, parser_vars, source, KEYWORD, step, runs, mock, first,
                 _rate_lock, clock_vars>>

\* graph.invoke(state)
GraphInvoke ==
    /\ graph.phase = "ready"
    /\ graph' = [graph EXCEPT !.phase = "running", !.triggered = Successors({"START"})]
    /\ UNCHANGED <<fs, call, pool_vars, graph_frame>>

GraphStart ==
    /\ graph.phase = "running"
    /\ \E n \in (graph.triggered \cap Nodes) \ graph.running :
          /\ \A i \in 1..Len(graph.started) : graph.started[i] # n
          /\ graph' = [graph EXCEPT !.running = @ \cup {n},
                                    !.started = Append(@, n)]
    /\ UNCHANGED <<fs, call, pool_vars, graph_frame>>

GraphFinish ==
    /\ graph.phase = "running"
    /\ \E n \in graph.running :
          /\ node_function(n)
          /\ graph' = IF call'.status = "raised"
                      THEN [graph EXCEPT !.phase = "failed", !.running = @ \ {n}]
                      ELSE [graph EXCEPT !.running = @ \ {n},
                                         !.finished = Append(@, n)]
    /\ UNCHANGED graph_frame

\* the superstep is over when every triggered node has finished
GraphAdvance ==
    /\ graph.phase = "running"
    /\ graph.running = {}
    /\ \A n \in graph.triggered \cap Nodes :
          \E i \in 1..Len(graph.finished) : graph.finished[i] = n
    /\ LET next == Successors(graph.triggered) \cap Nodes
       IN  graph' = IF next = {}
                    THEN [graph EXCEPT !.phase = "done", !.triggered = {}]
                    ELSE [graph EXCEPT !.triggered = next]
    /\ UNCHANGED <<fs, call, pool_vars, graph_frame>>

SearchGithub ==
    Invoke(1, source = "github" /\ search_github(KEYWORD) /\ UNCHANGED pool_vars)

(***************************************************************************)
(* The initial states.  The artifact directory is empty, or holds for a    *)
(* keyword what an earlier complete run over one listing left there.       *)
(***************************************************************************)
LeftoverProfile == [citation |-> "profile", license_analysis |-> "not_open_source"]

LeftoverEnriched(src) ==
    CASE src = "github" ->
            process_repositories(RawListing(1), <<Fetched("ok", "NA")>>).out
      [] src = "huggingface" ->
            process_datasets(RawListing(1), <<Fetched("ok", "ok")>>).out
      [] OTHER ->
            <<[RawRecord(1) EXCEPT !.content = get_kaggle_dataset_card("ok"),
                                   !.files = get_kaggle_dataset_files("ok")]>>

LeftoverClassified(src) ==
    classify_records(src, LeftoverEnriched(src),
                     <<Answer(<<"LB", "DOWN_T", "REASON", "RB">>)>>)

LeftoverViolations(src) ==
    analyze_downstream_usage(src, LeftoverClassified(src), LeftoverProfile,
                            <<Answer(<<"LB", "HAS_F", "VIOLS", "RB">>)>>).out

Leftover(src, name) ==
    CASE name = RawName(src) -> File(RawListing(1))
      [] name = EnrichedName(src) -> File(LeftoverEnriched(src))
      [] name = ClassifiedName(src) -> File(LeftoverClassified(src))
      [] name = ViolationName(src) /\ src # "kaggle" -> File(LeftoverViolations(src))
      [] name = ProfileName -> File(<<LeftoverProfile>>)
      [] OTHER -> Absent

NoPrompt == [source |-> "none", field |-> "none", length |-> 0, built |-> FALSE,
             kept |-> 0, marked |-> FALSE]

NoPager == [name |-> "none", pc |-> "idle"]

NoPartition == [pc |-> "idle"]

NoWalk == [done |-> FALSE, idle |-> TRUE]

InitAuxIdle ==
    /\ prompt = NoPrompt
    /\ pager = NoPager
    /\ partition = NoPartition
    /\ walk = NoWalk

NoClassification == [response |-> Raises, result |-> NoVerdict]

InitParserIdle ==
    /\ response = NoClassification.response
    /\ result = NoClassification.result

InitClockIdle ==
    /\ now = 0
    /\ _last_request_time = 0
    /\ callers = <<>>
    /\ last_done = -1

InitPool ==
    /\ call = NoCall
    /\ step = 0
    /\ runs = 0
    /\ first = NoSnapshot
    /\ _rate_lock = 0
    /\ workers = [w \in Pool |-> IdleThread]
    /\ futures = <<>>
    /\ processed_datasets = <<>>

Init ==
    /\ InitParserIdle
    /\ InitClockIdle
    /\ InitPool
    /\ client = NoClient
    /\ graph = NoGraph
    /\ InitAuxIdle
    /\ source \in Sources
    /\ KEYWORD \in Keywords
    /\ \E kept \in {{}, Keywords} :
          fs = [f \in FileNames \X Keywords |->
                   IF f[2] \in kept THEN Leftover(source, f[1]) ELSE Absent]
    /\ mock = Live

PoolStep ==
    \/ \E w \in Pool : TakeTask(w)
    \/ \E w \in Pool : Acquire(w)
    \/ \E w \in Pool : Respond(w)
    \/ \E w \in Pool : Wake(w)
    \/ Collect
    \/ FinishKaggle

Next ==
    \/ SearchStage
    \/ EnrichGithub
    \/ EnrichHuggingface
    \/ EnrichKaggle
    \/ ClassifyStage
    \/ FormalizeStage
    \/ MergeStage
    \/ CitationStage
    \/ PoolStep

Spec == Init /\ [][Next]_vars

(***************************************************************************)
(* The classification gate alone: one call of check_downstream_usage on    *)
(* any answer of the capability.                                           *)
(***************************************************************************)
NoFiles == [f \in FileNames \X Keywords |-> Absent]

InitParser ==
    /\ response \in {Raises} \cup {Answer(text) : text \in Texts}
    /\ result = NoVerdict
    /\ InitClockIdle
    /\ InitPool
    /\ client = NoClient
    /\ graph = NoGraph
    /\ InitAuxIdle
    /\ source = "github"
    /\ KEYWORD = "BRSET"
    /\ fs = NoFiles
    /\ mock = Live

ClassifyCall ==
    /\ result = NoVerdict
    /\ result' = check_downstream_usage(response)
    /\ UNCHANGED <<side_vars, response, stage_vars, _rate_lock, pool_vars, clock_vars>>

NextParser == ClassifyCall

SpecParser == InitParser /\ [][NextParser]_vars

(***************************************************************************)
(* check_license_violation_with_openai on every answer of up to MaxAnswer  *)
(* tokens.                                                                 *)
(***************************************************************************)
NotCalled == [has_violation |-> "NOT_CALLED", violations |-> "NOT_CALLED"]

InitViolation ==
    /\ response \in {Raises} \cup {Answer(text) : text \in VTexts}
    /\ result = NotCalled
    /\ InitClockIdle
    /\ InitPool
    /\ client = NoClient
    /\ graph = NoGraph
    /\ InitAuxIdle
    /\ source = "github"
    /\ KEYWORD = "BRSET"
    /\ fs = NoFiles
    /\ mock = Live

ViolationCall ==
    /\ result = NotCalled
    /\ result' = check_license_violation_with_openai(response)
    /\ UNCHANGED <<side_vars, response, stage_vars, _rate_lock, pool_vars, clock_vars>>

NextViolation == ViolationCall

SpecViolation == InitViolation /\ [][NextViolation]_vars

(***************************************************************************)
(* rate_limited_get against the clock: max_workers threads call it, each   *)
(* up to MaxCalls times.  time.time() reads now; time.sleep(d) returns     *)
(* when at least d seconds have passed.                                    *)
(***************************************************************************)
RATE_LIMIT_INTERVAL == 3

OutCaller == [pc |-> "out", calls |-> 0, wake |-> 0, started |-> 0, prev_done |-> -1]

\* sleep_time = RATE_LIMIT_INTERVAL - elapsed, when elapsed < RATE_LIMIT_INTERVAL
sleep_time(elapsed) ==
    IF elapsed < RATE_LIMIT_INTERVAL THEN RATE_LIMIT_INTERVAL - elapsed ELSE 0

Tick ==
    /\ now < MaxTime
    /\ now' = now + 1
    /\ UNCHANGED <<side_vars, parser_vars, stage_vars, _rate_lock, pool_vars, _last_request_time,
                   callers, last_done>>

\* a thread calls rate_limited_get
GateCall(c) ==
    /\ callers[c].pc = "out"
    /\ callers[c].calls < MaxCalls
    /\ callers' = [callers EXCEPT ![c].pc = "lock"]
    /\ UNCHANGED <<side_vars, parser_vars, stage_vars, _rate_lock, pool_vars, now,
                   _last_request_time, last_done>>

\* with _rate_lock:
GateAcquire(c) ==
    /\ callers[c].pc = "lock"
    /\ lock_is_free(c)
    /\ _rate_lock' = c
    /\ callers' = [callers EXCEPT ![c].pc = "check"]
    /\ UNCHANGED <<side_vars, parser_vars, stage_vars, pool_vars, now, _last_request_time, last_done>>

\* now = time.time(); elapsed = now - _last_request_time; the sleep, if any
GateCheck(c) ==
    /\ callers[c].pc = "check"
    /\ LET elapsed == now - _last_request_time
       IN  callers' = [callers EXCEPT ![c] =
              IF elapsed < RATE_LIMIT_INTERVAL
              THEN [@ EXCEPT !.pc = "gate_sleep", !.wake = now + sleep_time(elapsed)]
              ELSE [@ EXCEPT !.pc = "send"]]
    /\ UNCHANGED <<side_vars, parser_vars, stage_vars, _rate_lock, pool_vars, now,
                   _last_request_time, last_done>>

GateSleepDone(c) ==
    /\ callers[c].pc = "gate_sleep"
    /\ now >= callers[c].wake
    /\ callers' = [callers EXCEPT ![c].pc = "send"]
    /\ UNCHANGED <<side_vars, parser_vars, stage_vars, _rate_lock, pool_vars, now,
                   _last_request_time, last_done>>

\* requests.get starts
GateSend(c) ==
    /\ callers[c].pc = "send"
    /\ callers' = [callers EXCEPT ![c] =
          [@ EXCEPT !.pc = "inflight", !.started = now, !.prev_done = last_done]]
    /\ UNCHANGED <<side_vars, parser_vars, stage_vars, _rate_lock, pool_vars, now,
                   _last_request_time, last_done>>

\* requests.get ends: with a response, or with a RequestException and the
\* ten-second sleep of the handler
GateRespond(c) ==
    /\ callers[c].pc = "inflight"
    /\ last_done' = now
    /\ \E raised \in BOOLEAN :
          callers' = [callers EXCEPT ![c] =
             IF raised
             THEN [@ EXCEPT !.pc = "exc_sleep", !.wake = now + error_sleep]
             ELSE [@ EXCEPT !.pc = "stamp"]]
    /\ UNCHANGED <<side_vars, parser_vars, stage_vars, _rate_lock, pool_vars, now, _last_request_time>>

\* return rate_limited_get(url, ...) from inside the with block
GateRetry(c) ==
    /\ callers[c].pc = "exc_sleep"
    /\ now >= callers[c].wake
    /\ callers' = [callers EXCEPT ![c].pc = "lock"]
    /\ UNCHANGED <<side_vars, parser_vars, stage_vars, _rate_lock, pool_vars, now,
                   _last_request_time, last_done>>

\* _last_request_time = time.time(); return response, leaving the with block
GateStamp(c) ==
    /\ callers[c].pc = "stamp"
    /\ _last_request_time' = now
    /\ _rate_lock' = released(c)
    /\ callers' = [callers EXCEPT ![c] = [OutCaller EXCEPT !.calls = callers[c].calls + 1]]
    /\ UNCHANGED <<side_vars, parser_vars, stage_vars, pool_vars, now, last_done>>

\* the clock is far past the initial _last_request_time of 0
InitGate ==
    /\ InitParserIdle
    /\ InitPool
    /\ client = NoClient
    /\ graph = NoGraph
    /\ InitAuxIdle
    /\ source = "kaggle"
    /\ KEYWORD = "BRSET"
    /\ fs = NoFiles
    /\ mock = Live
    /\ now = RATE_LIMIT_INTERVAL
    /\ _last_request_time = 0
    /\ callers = [c \in Pool |-> OutCaller]
    /\ last_done = -1

NextGate ==
    \/ Tick
    \/ \E c \in Pool : GateCall(c)
    \/ \E c \in Pool : GateAcquire(c)
    \/ \E c \in Pool : GateCheck(c)
    \/ \E c \in Pool : GateSleepDone(c)
    \/ \E c \in Pool : GateSend(c)
    \/ \E c \in Pool : GateRespond(c)
    \/ \E c \in Pool : GateRetry(c)
    \/ \E c \in Pool : GateStamp(c)

SpecGate == InitGate /\ [][NextGate]_vars

(***************************************************************************)
(* One call of a client wrapper, for each wrapper and each Retry-After     *)
(* value the service may send.                                             *)
(***************************************************************************)
InitClient ==
    /\ InitParserIdle
    /\ InitClockIdle
    /\ InitPool
    /\ \E name \in Clients, hint \in Hints : client = NewCall(name, hint)
    /\ graph = NoGraph
    /\ InitAuxIdle
    /\ source = "kaggle"
    /\ KEYWORD = "BRSET"
    /\ fs = NoFiles
    /\ mock = Live

NextClient ==
    \/ ClientRespond
    \/ ClientWake
    \/ search_huggingface

SpecClient == InitClient /\ [][NextClient]_vars

\* the endpoint answers a request with a 200
GoodAnswer == ClientRespond /\ client'.last_status = "200"

\* a sleep ends, and an endpoint that is asked again and again answers with
\* a 200 in the end
SpecClientFair ==
    /\ InitClient
    /\ [][NextClient]_vars
    /\ WF_vars(ClientWake)
    /\ WF_vars(search_huggingface)
    /\ SF_vars(GoodAnswer)

(***************************************************************************)
(* One run of the compiled graph for a keyword, over an artifact directory *)
(* that is empty or holds what an earlier run left.                        *)
(***************************************************************************)
InitGraph ==
    /\ InitParserIdle
    /\ InitClockIdle
    /\ InitPool
    /\ client = NoClient
    /\ graph = NewRun
    /\ InitAuxIdle
    /\ source \in Sources
    /\ KEYWORD \in Keywords
    /\ \E kept \in {{}, Keywords} :
          fs = [f \in FileNames \X Keywords |->
                   IF f[2] \in kept THEN Leftover(source, f[1]) ELSE Absent]
    /\ mock = Live

NextGraph ==
    \/ GraphInvoke
    \/ GraphStart
    \/ GraphFinish
    \/ GraphAdvance

SpecGraph == InitGraph /\ [][NextGraph]_vars

(***************************************************************************)
(* The code-host source end to end for one keyword, from an empty artifact *)
(* directory: search over the date windows, enrich, classify, formalize,   *)
(* merge.                                                                  *)
(***************************************************************************)
InitScenario ==
    /\ InitParserIdle
    /\ InitClockIdle
    /\ InitPool
    /\ client = NoClient
    /\ graph = NoGraph
    /\ InitAuxIdle
    /\ source = "github"
    /\ KEYWORD = "BRSET"
    /\ fs = NoFiles
    /\ mock = Live

NextScenario ==
    \/ SearchGithub
    \/ EnrichGithub
    \/ ClassifyStage
    \/ FormalizeStage
    \/ MergeStage

SpecScenario == InitScenario /\ [][NextScenario]_vars

(***************************************************************************)
(* The excerpt of a record's free-text content in the classification       *)
(* prompt.  A text is its length; an excerpt is how many leading           *)
(* characters are kept and whether the marker "\n... [truncated]" follows. *)
(***************************************************************************)
\* fine_filter_huggingface.py, lines 58 and 59
MAX_DATASET_CARD_LENGTH == 5000

MAX_FILE_LIST_LENGTH == 2000

\* fine_filter_kaggle.py, line 30
MAX_DATASET_CARD_LENGTH_kaggle == 8000

\* len("\n... [truncated]")
truncated_marker == 16

Ceilings == {MAX_FILE_LIST_LENGTH, MAX_DATASET_CARD_LENGTH, MAX_DATASET_CARD_LENGTH_kaggle}

\* the content fields the three prompts hold
Fields == {<<"github", "readme">>, <<"huggingface", "dataset_card">>,
           <<"huggingface", "files">>, <<"kaggle", "dataset_card">>}

Lengths == {0} \cup {c + d : c \in Ceilings, d \in (0 - MaxOver)..MaxOver}

\* text[:ceiling] + "\n... [truncated]" when len(text) > ceiling
trim(length, ceiling) ==
    IF length > ceiling
    THEN [kept |-> ceiling, marked |-> TRUE]
    ELSE [kept |-> length, marked |-> FALSE]

\* {repo_info.get('readme')}: the field itself
as_is(length) == [kept |-> length, marked |-> FALSE]

prompt_field(src, field, length) ==
    CASE src = "github" -> as_is(length)
      [] src = "huggingface" /\ field = "dataset_card" ->
            trim(length, MAX_DATASET_CARD_LENGTH)
      [] src = "huggingface" /\ field = "files" ->
            trim(length, MAX_FILE_LIST_LENGTH)
      [] OTHER -> trim(length, MAX_DATASET_CARD_LENGTH_kaggle)

\* the length of the excerpt in the prompt
placed(p) == p.kept + (IF p.marked THEN truncated_marker ELSE 0)

BuildPrompt ==
    /\ ~prompt.built
    /\ prompt.source # "none"
    /\ LET x == prompt_field(prompt.source, prompt.field, prompt.length)
       IN  prompt' = [prompt EXCEPT !.built = TRUE, !.kept = x.kept,
                                    !.marked = x.marked]
    /\ UNCHANGED <<parser_vars, stage_vars, _rate_lock, pool_vars, clock_vars,
                   client, graph, pager, walk_vars>>

InitPrompt ==
    /\ InitParserIdle
    /\ InitClockIdle
    /\ InitPool
    /\ client = NoClient
    /\ graph = NoGraph
    /\ pager = NoPager
    /\ partition = NoPartition
    /\ walk = NoWalk
    /\ source = "github"
    /\ KEYWORD = "BRSET"
    /\ fs = NoFiles
    /\ mock = Live
    /\ \E f \in Fields, n \in Lengths :
          prompt = [source |-> f[1], field |-> f[2], length |-> n,
                    built |-> FALSE, kept |-> 0, marked |-> FALSE]

NextPrompt == BuildPrompt

SpecPrompt == InitPrompt /\ [][NextPrompt]_vars


(***************************************************************************)
(* The page loops of the two paged listing searches: the code host's       *)
(* search_repositories_with_date_range over one date window and the        *)
(* competition catalog's search_datasets_by_keyword.  Each answer is       *)
(* handled as the retry wrapper handles it (on_response); on top of that   *)
(* the loop keeps the page number and the items gathered.  An item is the  *)
(* pair of its page and its place on the page; the service sends at most   *)
(* per_page items for a page.  log is the history of the answers.          *)
(***************************************************************************)
Pagers == {"search_repositories_with_date_range", "search_datasets_by_keyword_kaggle"}

\* "403_limited" is a 403 whose body mentions a rate limit while its
\* X-RateLimit-Remaining is not 0
PageStatuses(name) ==
    IF name = "search_repositories_with_date_range"
    THEN {"200", "quota", "403", "403_limited", "500", "exception"}
    ELSE {"200", "429", "503", "404", "exception"}

\* the answer is printed as an error or a warning: by the code-host search
\* in the elif branch only, which a 403 that mentions a rate limit never
\* reaches; by the competition search in every branch but the 200's
reports(name, status) ==
    IF name = "search_repositories_with_date_range"
    THEN status \notin {"200", "quota", "403_limited", "exception"}
    ELSE status # "200"

\* max_pages = None
NoMaxPages == 0

page_items(page, n) == [k \in 1..n |-> <<page, k>>]

\* all_repos.extend(items), all_datasets.extend(items)
replace(all, items) == items

extend(all, items) == all \o items

\* the request of a retry is the request that failed: params is built once
\* for a page, outside the retry loop
skipped_page(page) == page + 1

retried_page(page) == page

\* for page in range(1, max_pages + 1)
always_more(page, max_pages) == TRUE

more_pages(page, max_pages) == page <= max_pages

\* if max_pages and page > max_pages: break
within_max_pages(page, max_pages) == ~(max_pages # NoMaxPages /\ page > max_pages)

has_next_page(name, page, max_pages) ==
    IF name = "search_repositories_with_date_range"
    THEN more_pages(page, max_pages)
    ELSE within_max_pages(page, max_pages)

NewSearch(name, max_pages, hint) ==
    [name |-> name, per_page |-> MaxPerPage, max_pages |-> max_pages, hint |-> hint,
     page |-> 1, attempt |-> 0, pc |-> "request", all |-> <<>>, log |-> <<>>]

\* one answer to the request of page p.page: n items with a 200, the time
\* to the quota reset with a quota answer
page_loop(p, status, n, wait) ==
    LET d == on_response(p.name, status, p.hint, wait, p.attempt)
        entry == [page |-> p.page, status |-> status, n |-> n, wait |-> wait,
                  slept |-> d.dur, reported |-> reports(p.name, status)]
        logged == [p EXCEPT !.log = Append(@, entry), !.attempt = d.attempt]
    IN  CASE d.do = "sleep" ->
                [logged EXCEPT !.pc = "sleeping", !.page = retried_page(p.page)]
          [] d.do = "raise" -> [logged EXCEPT !.pc = "raised"]
          [] d.do = "return" /\ d.outcome = "ok" /\ n > 0 ->
                [logged EXCEPT !.all = extend(p.all, page_items(p.page, n)),
                               !.page = p.page + 1,
                               !.attempt = 0,
                               !.pc = IF has_next_page(p.name, p.page + 1, p.max_pages)
                                      THEN "request" ELSE "returned"]
          [] OTHER -> [logged EXCEPT !.pc = "returned"]

pager_frame == <<parser_vars, stage_vars, _rate_lock, pool_vars, clock_vars,
                 client, graph, prompt, walk_vars>>

PageRespond ==
    /\ pager.pc = "request"
    /\ Len(pager.log) < MaxPageRequests
    /\ \E status \in PageStatuses(pager.name), n \in 0..pager.per_page, wait \in Waits :
          /\ status # "200" => n = 0
          /\ status # "quota" => wait = 0
          /\ pager' = page_loop(pager, status, n, wait)
    /\ UNCHANGED pager_frame

\* time.sleep returns
PageWake ==
    /\ pager.pc = "sleeping"
    /\ pager' = [pager EXCEPT !.pc = "request"]
    /\ UNCHANGED pager_frame

InitPager ==
    /\ InitParserIdle
    /\ InitClockIdle
    /\ InitPool
    /\ client = NoClient
    /\ graph = NoGraph
    /\ prompt = NoPrompt
    /\ partition = NoPartition
    /\ walk = NoWalk
    /\ source = "github"
    /\ KEYWORD = "BRSET"
    /\ fs = NoFiles
    /\ mock = Live
    /\ \/ \E max_pages \in 1..MaxPages :
             pager = NewSearch("search_repositories_with_date_range", max_pages, NoHint)
       \/ \E max_pages \in {NoMaxPages} \cup 1..MaxPages, hint \in Hints :
             pager = NewSearch("search_datasets_by_keyword_kaggle", max_pages, hint)

NextPager ==
    \/ PageRespond
    \/ PageWake

SpecPager == InitPager /\ [][NextPager]_vars


(***************************************************************************)
(* The compliance merge over any classified artifact of one or two         *)
(* records: each record marked downstream or not, with no citation key, an *)
(* empty citation or a citation of its own.                                *)
(***************************************************************************)
RecordCitations == {"ABSENT", "EMPTY", "own"}

MergeVerdicts ==
    {check_downstream_usage(Answer(<<"LB", "DOWN_T", "REASON", "RB">>)),
     check_downstream_usage(Answer(<<"LB", "DOWN_F", "REASON", "RB">>))}

ClassifiedRecord(src, id, verdict, citation) ==
    [LeftoverClassified(src)[1] EXCEPT !.id = id, !.verdict = verdict,
                                       !.citation = citation]

InitMerge ==
    /\ InitParserIdle
    /\ InitClockIdle
    /\ InitPool
    /\ client = NoClient
    /\ graph = NoGraph
    /\ InitAuxIdle
    /\ source \in {"github", "huggingface"}
    /\ KEYWORD = "BRSET"
    /\ mock = Live
    /\ \E n \in 1..MaxRecords :
          \E verdicts \in [1..n -> MergeVerdicts], citations \in [1..n -> RecordCitations] :
             fs = [NoFiles EXCEPT
                     ![<<ProfileName, KEYWORD>>] = File(<<LeftoverProfile>>),
                     ![<<ClassifiedName(source), KEYWORD>>] =
                         File([i \in 1..n |->
                                 ClassifiedRecord(source, i, verdicts[i], citations[i])])]

NextMerge == MergeStage

SpecMerge == InitMerge /\ [][NextMerge]_vars

(***************************************************************************)
(* The code-host search over its date windows: partition_and_search and    *)
(* search_github of crawl_github.py.  A date is a day number.  The code    *)
(* host's catalogue gives each repository the day it was created; the      *)
(* query created:from..to matches the repositories created on a day from   *)
(* from to to, both included.  A window's search returns its matches, or   *)
(* nothing when its first page is answered with an error.                  *)
(***************************************************************************)
Days == 0..MaxDay

\* the repositories the query of one window matches, by identity
matching(created, from, to) ==
    LET InRange(id) == from <= created[id] /\ created[id] <= to
    IN  SelectSeq([id \in 1..MaxRepos |-> id], InRange)

\* current + timedelta(days=interval_days), with no regard to end_date
next_date_unclamped(current, interval_days, end_date) == current + interval_days

\* min(current + timedelta(days=interval_days), end_date)
next_date(current, interval_days, end_date) ==
    Min({current + interval_days, end_date})

NewPartition(start_date, end_date, interval_days, created) ==
    [pc |-> "loop", start_date |-> start_date, end_date |-> end_date,
     interval_days |-> interval_days, created |-> created,
     current |-> start_date, windows |-> <<>>, all_results |-> <<>>]

partition_frame == <<parser_vars, stage_vars, _rate_lock, pool_vars, clock_vars,
                     client, graph, prompt, pager, walk>>

\* one turn of while current < end_date
SearchWindow ==
    /\ partition.pc = "loop"
    /\ partition.current < partition.end_date
    /\ \E answered \in BOOLEAN :
          LET to == next_date(partition.current, partition.interval_days,
                              partition.end_date)
              repos == IF answered
                       THEN matching(partition.created, partition.current, to)
                       ELSE <<>>
          IN  partition' =
                 [partition EXCEPT
                     !.windows = Append(@, [from |-> partition.current, to |-> to,
                                            repos |-> repos]),
                     !.all_results = extend(@, repos),
                     !.current = to]
    /\ UNCHANGED partition_frame

\* the loop is over: partition_and_search returns
PartitionReturn ==
    /\ partition.pc = "loop"
    /\ ~(partition.current < partition.end_date)
    /\ partition' = [partition EXCEPT !.pc = "returned"]
    /\ UNCHANGED partition_frame

\* search_github saves what partition_and_search returned
SaveRepositories ==
    /\ partition.pc = "returned"
    /\ partition' = [partition EXCEPT !.pc = "saved"]
    /\ fs' = Save(fs, RawName("github"), KEYWORD,
                  [i \in 1..Len(partition.all_results) |->
                      RawRecord(partition.all_results[i])])
    /\ call' = Called("search", "none", RawName("github"), Absent, <<>>,
                      "returned", TRUE)
    /\ UNCHANGED <<parser_vars, source, KEYWORD, step, runs, mock, first, _rate_lock,
                   pool_vars, clock_vars, client, graph, prompt, pager, walk>>

InitPartition ==
    /\ InitParserIdle
    /\ InitClockIdle
    /\ InitPool
    /\ client = NoClient
    /\ graph = NoGraph
    /\ prompt = NoPrompt
    /\ pager = NoPager
    /\ walk = NoWalk
    /\ source = "github"
    /\ KEYWORD = "BRSET"
    /\ fs = NoFiles
    /\ mock = Live
    /\ \E start_date \in Days, end_date \in Days, interval_days \in 1..MaxInterval,
          created \in [1..MaxRepos -> Days] :
          partition = NewPartition(start_date, end_date, interval_days, created)

NextPartition ==
    \/ SearchWindow
    \/ PartitionReturn
    \/ SaveRepositories

SpecPartition == InitPartition /\ [][NextPartition]_vars

(***************************************************************************)
(* The walk of a dataset's file tree: fetch_recursive_file_paths of        *)
(* process_huggingface.py.  A directory is the list of its items as the    *)
(* tree API sends it, and ok says whether safe_request got that list; an   *)
(* item's path is the list of the places that lead to it from the root.    *)
(***************************************************************************)
FileItem == [type |-> "file", ok |-> TRUE, items |-> <<>>]

Directory(ok, items) == [type |-> "directory", ok |-> ok, items |-> items]

RECURSIVE Forest(_)
RECURSIVE ItemsOfSize(_)
\* the items made of k files and directories
ItemsOfSize(k) ==
    IF k = 1
    THEN {FileItem} \cup {Directory(ok, <<>>) : ok \in BOOLEAN}
    ELSE {Directory(ok, f) : ok \in BOOLEAN, f \in Forest(k - 1)}

\* the listings made of n files and directories in all
Forest(n) ==
    IF n = 0 THEN {<<>>}
    ELSE UNION {{<<it>> \o rest : it \in ItemsOfSize(k), rest \in Forest(n - k)} :
                   k \in 1..n}

Trees == {Directory(ok, f) : ok \in BOOLEAN, f \in UNION {Forest(n) : n \in 0..MaxNodes}}

\* if not response: a listing is taken whether or not the request got it
listed_anyway(dir) == TRUE

listed(dir) == dir.ok

RECURSIVE fetch_recursive_file_paths_of(_, _)
RECURSIVE paths_from(_, _, _)
\* for item in items, from the i-th on
paths_from(items, path, i) ==
    IF i > Len(items) THEN <<>>
    ELSE LET sub_path == Append(path, i)
             found == IF items[i].type = "file" THEN <<sub_path>>
                      ELSE fetch_recursive_file_paths_of(items[i], sub_path)
         IN  extend(found, paths_from(items, path, i + 1))

fetch_recursive_file_paths_of(dir, path) ==
    IF ~listed(dir) THEN <<>> ELSE paths_from(dir.items, path, 1)

WalkTree ==
    /\ ~walk.idle
    /\ ~walk.done
    /\ walk' = [walk EXCEPT !.done = TRUE,
                            !.paths = fetch_recursive_file_paths_of(walk.tree, <<>>)]
    /\ UNCHANGED <<parser_vars, stage_vars, _rate_lock, pool_vars, clock_vars,
                   client, graph, prompt, pager, partition>>

InitWalk ==
    /\ InitParserIdle
    /\ InitClockIdle
    /\ InitPool
    /\ client = NoClient
    /\ graph = NoGraph
    /\ prompt = NoPrompt
    /\ pager = NoPager
    /\ partition = NoPartition
    /\ source = "huggingface"
    /\ KEYWORD = "BRSET"
    /\ fs = NoFiles
    /\ mock = Live
    /\ \E tree \in Trees :
          walk = [idle |-> FALSE, done |-> FALSE, tree |-> tree, paths |-> <<>>]

NextWalk == WalkTree

SpecWalk == InitWalk /\ [][NextWalk]_vars

(***************************************************************************)
(* Kaggle enrichment run again against a mocked service: the service       *)
(* answers each dataset's requests the same way in every run.              *)
(***************************************************************************)
InitRerun ==
    /\ InitParserIdle
    /\ InitClockIdle
    /\ InitPool
    /\ client = NoClient
    /\ graph = NoGraph
    /\ InitAuxIdle
    /\ source = "kaggle"
    /\ KEYWORD = "BRSET"
    /\ fs = NoFiles
    /\ mock \in Mocks

NextRerun ==
    \/ SearchStage
    \/ EnrichKaggle
    \/ PoolStep

SpecRerun == InitRerun /\ [][NextRerun]_vars

(***************************************************************************)
(* The properties.                                                         *)
(***************************************************************************)

\* C1: after the enrichment stage ran on a raw artifact of n records, the
\* enriched artifact holds exactly n records, one per raw record with that
\* record's identity key, for every n >= 0 and every pattern of fetch failures.
C1_RecordConservation ==
    (call.stage = "enrich" /\ call.status # "running" /\ call.had_input) =>
        LET out == fs[<<EnrichedName(source), KEYWORD>>]
        IN  /\ out.exists
            /\ Len(out.data) = Len(call.input)
            /\ \A i \in 1..Len(call.input) :
                  \E j \in 1..Len(out.data) : out.data[j].id = call.input[i].id

\* C2: every request sent through rate_limited_get starts at least
\* RATE_LIMIT_INTERVAL seconds after the previous request through the gate
\* completed, and a thread about to read or write _last_request_time holds
\* _rate_lock.
C2_GateSpacing ==
    \A c \in DOMAIN callers :
        /\ (callers[c].pc = "inflight" /\ callers[c].prev_done >= 0) =>
              callers[c].started >= callers[c].prev_done + RATE_LIMIT_INTERVAL
        /\ callers[c].pc \in {"check", "stamp"} => _rate_lock = c

\* C2, its case: a thread's request is in flight exactly one interval after
\* the other thread's request completed, the other thread waiting at the lock
C2_SecondRequestSpaced ==
    \E c \in DOMAIN callers, d \in DOMAIN callers :
        /\ c # d
        /\ callers[c].pc = "inflight"
        /\ callers[c].prev_done >= 0
        /\ callers[c].started = callers[c].prev_done + RATE_LIMIT_INTERVAL
        /\ callers[d].calls >= 1
        /\ callers[d].pc = "lock"

\* C3: after a network exception inside rate_limited_get the request is
\* retried with the lock released in between: no worker waits to acquire
\* _rate_lock while holding it itself, which would block it forever.
C3_RetryNeverBlocks ==
    \A w \in Pool : workers[w].pc = "lock" => _rate_lock # w

\* C4: the violation artifact a compliance merge wrote holds exactly the
\* classified records whose downstream_usage.is_downstream is true, each once
\* and in their original order.
C4_ExactlyDownstream ==
    (call.stage = "merge" /\ call.wrote) =>
        LET out == fs[<<ViolationName(source), KEYWORD>>].data
            IsTrue(r) == r.verdict.is_downstream = "true"
            marked == SelectSeq(call.input, IsTrue)
        IN  /\ Len(out) = Len(marked)
            /\ \A i \in 1..Len(out) : out[i].id = marked[i].id

\* C5: for every response text the verdict the classification gate returns
\* is an object with a boolean is_downstream and a reason; a response that
\* is neither a fenced nor a bare JSON object gives the default verdict.
C5_VerdictWellFormed ==
    result # NoVerdict =>
        /\ result.kind = "object"
        /\ result.is_downstream \in {"true", "false"}
        /\ result.reason # "ABSENT"

\* C6: a second run of the Kaggle enrichment stage on the same raw artifact,
\* the service answering as in the first run, leaves the enriched artifact
\* the first run left.
C6_RerunIdentical ==
    (/\ call.stage = "enrich"
     /\ call.status = "returned"
     /\ call.wrote
     /\ first.taken
     /\ call.input = first.input) =>
        fs[<<EnrichedName("kaggle"), KEYWORD>>].data = first.output

\* C7: the classified artifact a classification stage wrote has as many
\* records as the enriched artifact it read, in the same order with the same
\* identity key at each position, and each carries a downstream_usage entry,
\* whatever the capability answered.
C7_ClassifyPreserves ==
    (call.stage = "classify" /\ call.wrote) =>
        LET out == fs[<<call.out_name, KEYWORD>>].data
        IN  /\ Len(out) = Len(call.input)
            /\ \A i \in 1..Len(out) :
                  /\ out[i].id = call.input[i].id
                  /\ out[i].verdict # NoVerdict

\* C7, its case: two records were classified, the capability raising for
\* the first and answering text that is no JSON for the second
C7_ClassifiedDespiteFailures ==
    /\ call.stage = "classify"
    /\ call.wrote
    /\ Len(call.input) = 2
    /\ call.outs[1] = Raises
    /\ call.outs[2] = Answer(<<"JUNK">>)

\* C8: a stage (enrich, classify, compliance merge, compliance-open-source)
\* whose input artifact for the keyword does not exist returns normally.
C8_MissingInputReturns ==
    (/\ call.stage \in {"enrich", "classify", "merge", "open_source"}
     /\ ~call.had_input) =>
        call.status # "raised"

\* C9: in an enrichment stage, every record whose own fetches succeeded is
\* in the written output artifact, whatever happened to the other records
\* of the batch.
C9_FailureIsolated ==
    (call.stage = "enrich" /\ call.status # "running" /\ call.had_input) =>
        \A i \in 1..Len(call.input) :
            (call.outs[i].content \in {"ok", "ok_empty"} /\ call.outs[i].files \in {"ok", "NA"})
            => /\ call.wrote
               /\ LET out == fs[<<EnrichedName(source), KEYWORD>>].data
                  IN  \E j \in 1..Len(out) : out[j].id = call.input[i].id

C11_FatalStatusReturns ==
    client.last_status \in {"500", "403", "404"} =>
        /\ client.pc = "returned"
        /\ client.outcome = "sentinel"

\* the clients that sleep and send the request again
RetryingClients ==
    {"search_datasets_by_keyword_kaggle", "robust_request", "safe_request",
     "search_datasets_by_keyword_hf"}

\* C12: within one call of a retrying client, over any sequence of 429, 503
\* and network errors with one Retry-After value, a sleep is never shorter
\* than the sleep before it, unless that one had reached the ceiling.
C12_SleepsNonDecreasing ==
    (/\ client.name \in RetryingClients
     /\ client.prev.cause \in {"429", "503", "exception"}
     /\ client.last.cause \in {"429", "503", "exception"}) =>
        client.last.dur >= Min({client.prev.dur, wait_ceiling})

\* C13: on a 429 every client sleeps hint * backoff_factor^attempt (hint: the
\* Retry-After header or the client's default; attempt: the retries made so
\* far), never more than the ceiling, and then sends the request again.
C13_RateLimitSleep ==
    client.last_status = "429" =>
        /\ client.pc \in {"sleeping", "request"}
        /\ client.last.cause = "429"
        /\ client.last.dur <= wait_ceiling
        /\ \E default \in {default_retry_after, initial_delay} :
              client.last.dur =
                  Min({retry_after_of(client.hint, default)
                          * (backoff_factor ^ client.last.retries), wait_ceiling})

\* C14: when the call to the classification capability raises for a record,
\* the record gets the safe default verdict (is_downstream false, the error
\* in reason), the stage still returns, and every other record of the batch
\* gets the verdict parsed from its own answer.
C14_RaiseGivesDefault ==
    (call.stage = "classify" /\ call.had_input) =>
        /\ call.status = "returned"
        /\ call.wrote
        /\ LET out == fs[<<call.out_name, KEYWORD>>].data
           IN  /\ Len(out) = Len(call.input)
               /\ \A i \in 1..Len(out) :
                     out[i].verdict =
                        IF call.outs[i].raises
                        THEN ErrorVerdict
                        ELSE extract_json_from_text(call.outs[i].content)

\* C14, its case: the call raised for the first of two records and the
\* second was classified as downstream
C14_RaisedThenClassified ==
    /\ call.stage = "classify"
    /\ call.wrote
    /\ Len(call.input) = 2
    /\ call.outs[1].raises
    /\ fs[<<call.out_name, KEYWORD>>].data[1].verdict.is_downstream = "false"
    /\ fs[<<call.out_name, KEYWORD>>].data[1].verdict.reason = "error"
    /\ call.outs[2] = Answer(<<"LB", "DOWN_T", "REASON", "RB">>)
    /\ fs[<<call.out_name, KEYWORD>>].data[2].verdict.is_downstream = "true"

\* the text json.loads is given: what stands between the first ```json and
\* the next ``` when the answer has such a pair, else the whole answer
C15_Payload ==
    LET s == response.content
        opens == {i \in 1..Len(s) :
                     s[i] = "FOPEN" /\ \E j \in (i + 1)..Len(s) : IsTicks(s[j])}
    IN  IF opens = {} THEN s
        ELSE LET i == Min(opens)
                 j == Min({k \in (i + 1)..Len(s) : IsTicks(s[k])})
             IN  SubSeq(s, i + 1, j - 1)

\* an object holding both keys
C15_WellFormed(s) ==
    /\ Len(s) >= 4
    /\ s[1] = "LB"
    /\ s[Len(s)] = "RB"
    /\ \A i \in 2..(Len(s) - 1) : s[i] \in VMembers
    /\ \E i \in 2..(Len(s) - 1) : s[i] \in {"HAS_T", "HAS_F"}
    /\ \E i \in 2..(Len(s) - 1) : s[i] = "VIOLS"

\* C15 as stated: the function returns {has_violation: false, violations: []}
\* whenever the capability raises, answers nothing, answers text that is not
\* valid JSON, or answers JSON that is no object with both keys; otherwise it
\* returns the parsed object.
C15_DefaultUnlessJsonObject ==
    result # NotCalled =>
        IF response.raises \/ ~C15_WellFormed(response.content)
        THEN result = DefaultViolation
        ELSE result = violation_json_loads(response.content).val

\* C15 amended: the text judged is the content of the first ```json fence of
\* the answer when it has one, else the whole answer; the function returns
\* the default when the capability raises, answers nothing, or that text is
\* no JSON object with both keys, and otherwise the object parsed from that
\* text (of a key given twice the last value).  It always returns.
C15_DefaultUnlessPayloadObject ==
    result # NotCalled =>
        IF response.raises \/ ~C15_WellFormed(C15_Payload)
        THEN result = DefaultViolation
        ELSE /\ result.has_violation \in {"true", "false"}
             /\ result.violations = "LIST"
             /\ \E i \in 1..Len(C15_Payload) :
                   /\ C15_Payload[i] = (IF result.has_violation = "true"
                                        THEN "HAS_T" ELSE "HAS_F")
                   /\ \A j \in (i + 1)..Len(C15_Payload) :
                         C15_Payload[j] \notin {"HAS_T", "HAS_F"}

\* C15, its case: an answer that is a fenced object with both keys came
\* back as the parsed object
C15_FencedObjectParsed ==
    /\ response = Answer(<<"FOPEN", "LB", "HAS_T", "VIOLS", "RB", "FCLOSE">>)
    /\ result = [has_violation |-> "true", violations |-> "LIST"]

\* C16: in every record of a violation artifact the citation is the
\* classified record's own citation when that is non-empty, and else the
\* citation of the keyword's license profile.
C16_CitationMerged ==
    (call.stage = "merge" /\ call.wrote) =>
        LET out == fs[<<call.out_name, KEYWORD>>].data
            profile == fs[<<ProfileName, KEYWORD>>].data[1]
        IN  \A i \in 1..Len(out) :
               \E j \in 1..Len(call.input) :
                  /\ call.input[j].id = out[i].id
                  /\ out[i].citation =
                        IF call.input[j].citation \in {"ABSENT", "EMPTY"}
                        THEN profile.citation
                        ELSE call.input[j].citation

\* the stages of the three sources and the license formalization
C17_Stages == Nodes \ {"Compliance Open Source"}

C17_Finished(n) == \E i \in 1..Len(graph.finished) : graph.finished[i] = n

\* the place of node n among the nodes started, 0 when it never started
C17_StartedAt(n) ==
    IF \E i \in 1..Len(graph.started) : graph.started[i] = n
    THEN CHOOSE i \in 1..Len(graph.started) : graph.started[i] = n
    ELSE 0

\* C17: in one run of the compiled graph every stage runs: each source's
\* search, enrich, classify and compliance merge, and the license
\* formalization; and no compliance node starts before the formalization
\* has finished.
C17_EveryStageRuns ==
    /\ graph.phase = "done" => \A n \in C17_Stages : C17_Finished(n)
    /\ \A n \in {"Compliance Kaggle", "Compliance Huggingface", "Compliance Github",
                 "Compliance Open Source"} :
          C17_StartedAt(n) > 0 => C17_Finished("Original License Formalization")

\* C18: the artifact a stage reads is the one the preceding stage of the
\* source writes for the keyword, and the one it writes is the one the next
\* stage reads: raw -> enriched -> classified -> violation.
C18_NamesChain ==
    /\ call.stage = "search" => call.out_name = RawName(source)
    /\ call.stage = "enrich" =>
          call.in_name = RawName(source) /\ call.out_name = EnrichedName(source)
    /\ call.stage = "classify" =>
          call.in_name = EnrichedName(source) /\ call.out_name = ClassifiedName(source)
    /\ call.stage = "merge" =>
          call.in_name = ClassifiedName(source) /\ call.out_name = ViolationName(source)

\* C19: after a stage run has returned, its output artifact holds only what
\* that run made of its input, also when the input was empty or missing: no
\* record of an earlier run is left in it.
C19_OutputIsThisRun ==
    (call.stage \in {"enrich", "classify", "merge"} /\ call.status = "returned") =>
        LET out == fs[<<call.out_name, KEYWORD>>]
        IN  /\ out.exists =>
                  \A i \in 1..Len(out.data) :
                     \E j \in 1..Len(call.input) : call.input[j].id = out.data[i].id
            /\ ~call.wrote => (~out.exists \/ out.data = <<>>)

\* the artifacts a stage call may write
C20_OwnOutputs(c) ==
    IF c.stage = "open_source" THEN {CitedName, OpenSourceName} ELSE {c.out_name}

\* C20: a step of a stage changes no artifact but the stage's own output for
\* the keyword: its input, the other stages' artifacts and the artifacts of
\* the other keywords stay as they were.
C20_WritesOwnOutputOnly ==
    [][\A f \in FileNames \X Keywords :
          fs'[f] # fs[f] => (f[2] = KEYWORD /\ f[1] \in C20_OwnOutputs(call'))]_vars

\* C20, its case: a classification wrote its output for the keyword while
\* the other keyword's artifacts of an earlier run, and the input, are there
C20_WroteBesideOthers ==
    /\ call.stage = "classify"
    /\ call.wrote
    /\ Len(call.input) = 2
    /\ fs[<<call.in_name, KEYWORD>>].data = call.input
    /\ \E kw \in Keywords \ {KEYWORD} :
          /\ fs[<<call.out_name, kw>>].exists
          /\ Len(fs[<<call.out_name, kw>>].data) = 1

\* C21: when the hub listing call has used all max_retries attempts without
\* a 200 response, the hub search stage halts: it writes no raw hub artifact
\* for the keyword.
C21_ExhaustedWritesNothing ==
    (/\ client.name = "search_datasets_by_keyword_hf"
     /\ client.attempt >= max_retries
     /\ client.outcome = "sentinel") =>
        /\ client.pc # "saved"
        /\ ~fs[<<RawName("huggingface"), KEYWORD>>].exists

\* C22: end to end on the code host: a search that found 2 repositories in
\* one date window and 1 in another leaves a raw artifact of 3 records; an
\* enrichment of 3 records in which one readme fetch failed leaves an enriched
\* artifact of 3 records, exactly one with a null readme; a merge over 3
\* classified records of which one was marked downstream leaves a violation
\* artifact of one entry, carrying the profile's citation.
C22_EndToEnd ==
    /\ (call.stage = "search" /\ call.outs \in {<<2, 1>>, <<1, 2>>}) =>
          Len(fs[<<RawName("github"), KEYWORD>>].data) = 3
    /\ (/\ call.stage = "enrich"
        /\ Len(call.input) = 3
        /\ Cardinality({i \in 1..3 :
                           call.outs[i].content \notin {"ok", "ok_empty"}}) = 1) =>
          /\ call.wrote
          /\ LET out == fs[<<EnrichedName("github"), KEYWORD>>].data
             IN  /\ Len(out) = 3
                 /\ Cardinality({i \in 1..Len(out) : out[i].content = "null"}) = 1
    /\ (/\ call.stage = "merge"
        /\ Len(call.input) = 3
        /\ Cardinality({i \in 1..3 : call.input[i].verdict.is_downstream = "true"}) = 1) =>
          /\ call.wrote
          /\ LET out == fs[<<ViolationName("github"), KEYWORD>>].data
             IN  /\ Len(out) = 1
                 /\ out[1].verdict.is_downstream = "true"
                 /\ out[1].citation = fs[<<ProfileName, KEYWORD>>].data[1].citation

\* C23: in Kaggle enrichment a pool thread that sleeps on the 429/503 backoff
\* of robust_request does not hold _rate_lock.
C23_BackoffOutsideLock ==
    \A w \in Pool : workers[w].pc = "backoff" => _rate_lock # w

\* C23, its case: one thread sleeps on its backoff while another holds the
\* lock with its request under way
C23_OtherSendsDuringBackoff ==
    \E w, v \in Pool :
        /\ workers[w].pc = "backoff"
        /\ workers[v].pc = "inflight"
        /\ _rate_lock = v

\* C24: in Kaggle enrichment at most one thread is inside requests.get at
\* any time, and that thread holds _rate_lock.
C24_OneRequestInFlight ==
    /\ \A w \in Pool : workers[w].pc = "inflight" => _rate_lock = w
    /\ Cardinality({w \in Pool : workers[w].pc = "inflight"}) <= 1

\* C24, its case: one thread has its request under way and the other waits
\* at the lock for its own
C24_SecondWaitsAtLock ==
    \E w, v \in Pool :
        /\ w # v
        /\ workers[w].pc = "inflight"
        /\ workers[v].pc = "lock"
        /\ workers[v].task # 0

\* C25: in every classification prompt, of every source, a free-text content
\* field (readme, dataset card, joined file list) takes at most a ceiling
\* plus the marker's length; a field longer than the ceiling is cut to the
\* ceiling and marked.  Stated with the largest ceiling of the program.
C25_ExcerptBounded ==
    prompt.built =>
        /\ placed(prompt) <= MAX_DATASET_CARD_LENGTH_kaggle + truncated_marker
        /\ (prompt.length > MAX_DATASET_CARD_LENGTH_kaggle => prompt.marked)

\* the answers that put items on the list: a 200 with a non-empty listing
Accepted(e) == e.status = "200" /\ e.n > 0

\* the items of the accepted answers of a history, in its order
RECURSIVE ItemsOfLog(_)
ItemsOfLog(log) ==
    IF log = <<>> THEN <<>>
    ELSE LET e == log[Len(log)]
             before == ItemsOfLog(SubSeq(log, 1, Len(log) - 1))
         IN  IF Accepted(e) THEN before \o page_items(e.page, e.n) ELSE before

\* C26: in the code-host search, an answer that signals quota exhaustion is
\* followed by a sleep of max(reset - now, 0) plus the 5 s margin and then
\* by a request for the same page: the page counter stays, and the items
\* gathered are exactly those of the accepted answers, none added or lost.
C26_QuotaRetriesSamePage ==
    pager.name = "search_repositories_with_date_range" =>
        LET log == pager.log
        IN  /\ \A i \in 1..Len(log) :
                  log[i].status = "quota" =>
                     /\ log[i].slept = log[i].wait + 5
                     /\ i < Len(log) => log[i + 1].page = log[i].page
                     /\ i = Len(log) =>
                           /\ pager.pc \in {"sleeping", "request"}
                           /\ pager.page = log[i].page
            /\ pager.all = ItemsOfLog(log)

\* a quota answer for page 2, then page 2 accepted after page 1
C26_RetriedPageAccepted ==
    /\ pager.name = "search_repositories_with_date_range"
    /\ \E i \in 1..(Len(pager.log) - 1) :
          /\ pager.log[i].status = "quota"
          /\ pager.log[i].page = 2
          /\ Accepted(pager.log[i + 1])
    /\ Len(pager.all) = 2 * pager.per_page

C27_Retryable == {"429", "503", "exception"}

\* C27: the competition-catalog search asks for pages 1, 2, 3, ... in order;
\* the page number goes up only after a 200 with a non-empty listing, every
\* retry after 429, 503 or a network error asks for the same page, and the
\* search returns the accepted pages concatenated in page order, when a page
\* comes back empty, when max_pages is exceeded, or on a status it does not
\* retry.
C27_KagglePaging ==
    pager.name = "search_datasets_by_keyword_kaggle" =>
        LET log == pager.log
            last == log[Len(log)]
        IN  /\ log # <<>> => log[1].page = 1
            /\ \A i \in 1..(Len(log) - 1) :
                  /\ log[i + 1].page = log[i].page + (IF Accepted(log[i]) THEN 1 ELSE 0)
                  /\ Accepted(log[i]) \/ log[i].status \in C27_Retryable
            /\ pager.all = ItemsOfLog(log)
            /\ pager.pc # "raised"
            /\ log # <<>> /\ last.status \in C27_Retryable =>
                  /\ pager.pc \in {"sleeping", "request"}
                  /\ pager.page = last.page
            /\ pager.pc = "returned" =>
                  /\ log # <<>>
                  /\ \/ last.status = "200" /\ last.n = 0
                     \/ last.status \notin C27_Retryable \cup {"200"}
                     \/ /\ Accepted(last)
                        /\ pager.max_pages # NoMaxPages
                        /\ last.page = pager.max_pages
            /\ log # <<>> /\ Accepted(last) /\ pager.pc = "request" =>
                  pager.page = last.page + 1

\* page 1 accepted after a retry, page 2 accepted, page 3 empty
C27_ReturnedAfterRetry ==
    /\ pager.name = "search_datasets_by_keyword_kaggle"
    /\ pager.pc = "returned"
    /\ Len(pager.log) = 4
    /\ pager.log[1].status \in C27_Retryable
    /\ Accepted(pager.log[2]) /\ pager.log[2].page = 1
    /\ Accepted(pager.log[3])
    /\ pager.log[4].status = "200" /\ pager.log[4].n = 0 /\ pager.log[4].page = 3
    /\ Len(pager.all) = 2 * pager.per_page

\* C30: within one date window the code-host search asks for pages
\* 1..max_pages in increasing order, stops at the first page without items
\* and returns the pages' items concatenated in page order; at most
\* max_pages requests succeed and at most max_pages * per_page records are
\* returned.
C30_WindowPaging ==
    pager.name = "search_repositories_with_date_range" =>
        LET log == pager.log
            successes == {i \in 1..Len(log) : log[i].status = "200"}
        IN  /\ log # <<>> => log[1].page = 1
            /\ \A i \in 1..Len(log) : log[i].page \in 1..pager.max_pages
            /\ \A i \in 1..(Len(log) - 1) :
                  /\ log[i + 1].page \in {log[i].page, log[i].page + 1}
                  /\ ~(log[i].status = "200" /\ log[i].n = 0)
            /\ \A i, j \in successes : i < j => log[i].page < log[j].page
            /\ log # <<>> /\ log[Len(log)].status = "200" /\ log[Len(log)].n = 0 =>
                  pager.pc = "returned"
            /\ Cardinality(successes) <= pager.max_pages
            /\ Len(pager.all) <= pager.max_pages * pager.per_page
            /\ \A k \in 1..(Len(pager.all) - 1) :
                  \/ pager.all[k][1] < pager.all[k + 1][1]
                  \/ /\ pager.all[k][1] = pager.all[k + 1][1]
                     /\ pager.all[k][2] < pager.all[k + 1][2]

\* every page of the window came back full and the search returned
C30_AllPagesTaken ==
    /\ pager.name = "search_repositories_with_date_range"
    /\ pager.pc = "returned"
    /\ pager.max_pages = MaxPages
    /\ Len(pager.all) = pager.max_pages * pager.per_page
    /\ pager.all[Len(pager.all)][1] = pager.max_pages

C28_Over == {"returned", "saved"}

\* C28: the hub search with max_retries = k never sends more than k requests
\* and then is over: it returns the listing of the first 200, stops with no
\* further request on the first status that is neither 200 nor 429, and
\* returns the empty list when all k requests got 429; each 429 sleep is
\* min(hint * 2^attempt, 60).
C28_HubSearchBounded ==
    client.name = "search_datasets_by_keyword_hf" =>
        /\ client.requests <= max_retries
        /\ client.requests = max_retries => client.pc # "request"
        /\ client.last_status = "200" =>
              client.pc \in C28_Over /\ client.outcome = "ok"
        /\ client.outcome = "ok" => client.last_status = "200"
        /\ client.last_status \in {"503", "500", "403", "404"} =>
              client.pc \in C28_Over /\ client.outcome = "sentinel"
        /\ client.last_status = "429" =>
              /\ client.attempt = client.requests
              /\ client.last.dur =
                    Min({retry_after_of(client.hint, 5) * (2 ^ (client.requests - 1)), 60})
              /\ client.pc \in C28_Over =>
                    client.requests = max_retries /\ client.outcome = "sentinel"
              /\ client.pc = "request" => client.requests < max_retries

\* all five requests got 429 and the search returned the empty list
C28_AllAttemptsLimited ==
    /\ client.name = "search_datasets_by_keyword_hf"
    /\ client.requests = max_retries
    /\ client.last_status = "429"
    /\ client.pc = "returned"
    /\ client.outcome = "sentinel"

\* the retry paths with no bound on their attempts
C29_Unbounded ==
    {"search_datasets_by_keyword_kaggle", "robust_request", "safe_request",
     "fetch_repo_readme"}

\* C29: on the unbounded retry paths a call goes on for as long as the
\* endpoint answers with transient failures, and returns once the endpoint
\* answers with a response that is not one: with an endpoint that answers
\* 200 in the end, every such call returns (or has used all the requests the
\* model gives it).
C29_ReturnsOnceAnswered ==
    <>(client.name \in C29_Unbounded =>
          \/ client.pc = "returned"
          \/ client.requests = MaxRequests)

\* the same, without robust_request
C29_OthersReturnOnceAnswered ==
    <>(client.name \in C29_Unbounded \ {"robust_request"} =>
          \/ client.pc = "returned"
          \/ client.requests = MaxRequests)

\* C38: in the compiled graph the compliance-open-source node starts only
\* after license formalization has written the keyword's license profile;
\* it runs crawl_citation and then check_open_source exactly when the
\* profile's open_source flag is true, and it completes without raising
\* whatever the rule-detection capability returned as the license analysis.
C38_CitationNodeCompletes ==
    LET profile == Load(fs, ProfileName, KEYWORD)
    IN  /\ C17_StartedAt("Compliance Open Source") > 0 =>
              /\ C17_Finished("Original License Formalization")
              /\ profile.exists
        /\ call.stage = "open_source" =>
              /\ call.status = "returned"
              /\ call.wrote <=> profile.data[1].license_analysis = "open_source"
              /\ Load(fs, CitedName, KEYWORD).exists <=> call.wrote

\* C36: the classification-gate parser is a chain of three steps: when the
\* response holds a fenced JSON block whose content does not parse, the
\* whole response is parsed as JSON next, and only when that fails too the
\* verdict is the default one, is_downstream false with the parse error in
\* reason.
C36_FallbackChain ==
    (/\ result # NoVerdict
     /\ ~response.raises
     /\ re_search(response.content).match
     /\ ~json_loads(re_search(response.content).group).ok) =>
        IF json_loads(response.content).ok
        THEN result = json_loads(response.content).val
        ELSE result.is_downstream = "false" /\ result.reason # "ABSENT"

\* C37: the compliance merge is additive on each downstream record: it sets
\* has_violation and violations, and citation only when the record has none,
\* and leaves every other field of the record, its downstream_usage verdict
\* and a non-empty citation of its own among them, as they were.
C37_MergeAdditive ==
    (call.stage = "merge" /\ call.wrote) =>
        LET out == fs[<<call.out_name, KEYWORD>>].data
        IN  \A i \in 1..Len(out) :
               \E j \in 1..Len(call.input) :
                  LET before == call.input[j]
                  IN  /\ out[i].id = before.id
                      /\ out[i].content = before.content
                      /\ out[i].files = before.files
                      /\ out[i].verdict = before.verdict
                      /\ out[i].has_violation # "ABSENT"
                      /\ out[i].violations # "ABSENT"
                      /\ before.citation \notin {"ABSENT", "EMPTY"} =>
                            out[i].citation = before.citation
                      /\ out[i].citation # before.citation =>
                            out[i].citation = fs[<<ProfileName, KEYWORD>>].data[1].citation

\* a code-host merge of two downstream records: one kept its own citation,
\* the other, which had none, got the profile's
C37_OwnCitationKept ==
    /\ source = "github"
    /\ call.stage = "merge" /\ call.wrote
    /\ Len(fs[<<call.out_name, KEYWORD>>].data) = 2
    /\ call.input[1].citation = "own"
    /\ fs[<<call.out_name, KEYWORD>>].data[1].citation = "own"
    /\ call.input[2].citation = "ABSENT"
    /\ fs[<<call.out_name, KEYWORD>>].data[2].citation = "profile"
    /\ fs[<<call.out_name, KEYWORD>>].data[1].has_violation = "true"

\* C34: fetch_repo_readme returns the body of the first response with status
\* 200: a 200 is never thrown away and asked for again, whatever its quota
\* headers say.
C34_FirstSuccessReturned ==
    (client.name = "fetch_repo_readme" /\ client.last_status \in {"200", "200_quota"}) =>
        /\ client.pc = "returned"
        /\ client.outcome = "ok"

\* C35: in the code-host search every response that is not a 200 is either
\* retried after a quota sleep or reported as an error before the window's
\* search returns: paging never stops silently on such a response, a 403
\* that mentions a rate limit while X-RateLimit-Remaining is not 0 included.
C35_NoSilentStop ==
    pager.name = "search_repositories_with_date_range" =>
        \A i \in 1..Len(pager.log) :
           pager.log[i].status \notin {"200", "exception"} =>
              \/ pager.log[i].slept > 0 /\ (i = Len(pager.log) => pager.pc # "returned")
              \/ pager.log[i].reported

\* C33: the enriched Kaggle artifact lists its records in the order of the
\* raw Kaggle artifact, whatever the interleaving of the pool's workers and
\* the order in which they finish.
C33_RawOrderKept ==
    (/\ source = "kaggle"
     /\ call.stage = "enrich"
     /\ call.status = "returned"
     /\ call.wrote) =>
        LET out == fs[<<EnrichedName("kaggle"), KEYWORD>>].data
            place(id) == CHOOSE k \in 1..Len(call.input) : call.input[k].id = id
        IN  \A i, j \in 1..Len(out) :
               i < j => place(out[i].id) < place(out[j].id)

\* ceil(a / b)
Ceil(a, b) == (a + b - 1) \div b

RECURSIVE WindowResults(_)
\* the results of the windows of a history, in its order
WindowResults(w) ==
    IF w = <<>> THEN <<>>
    ELSE WindowResults(SubSeq(w, 1, Len(w) - 1)) \o w[Len(w)].repos

\* C31: for start < end and interval_days >= 1, partition_and_search ends
\* after exactly ceil((end - start) / interval_days) windows; the windows go
\* forward in time, each spans at most interval_days, the first starts at
\* start, the last ends at end, each starts where the one before ended, and
\* the result is the windows' results concatenated in window order; with
\* start >= end no request is made and the result is empty.
C31_WindowsCoverRange ==
    partition.pc # "idle" =>
        LET w == partition.windows
            n == Len(w)
            over == partition.pc \in {"returned", "saved"}
            span == partition.end_date - partition.start_date
        IN  /\ partition.start_date >= partition.end_date =>
                  n = 0 /\ partition.all_results = <<>>
            /\ partition.start_date < partition.end_date =>
                  /\ n <= Ceil(span, partition.interval_days)
                  /\ over => n = Ceil(span, partition.interval_days)
                  /\ over => w[n].to = partition.end_date
            /\ n > 0 => w[1].from = partition.start_date
            /\ \A i \in 1..n :
                  /\ w[i].from < w[i].to
                  /\ w[i].to - w[i].from <= partition.interval_days
            /\ \A i \in 1..(n - 1) : w[i + 1].from = w[i].to
            /\ partition.all_results = WindowResults(w)

\* days 0 to 5 in windows of 2 days: three windows, the last one shorter,
\* with a repository found in the first and in the last
C31_ThreeWindows ==
    /\ partition.pc = "returned"
    /\ partition.start_date = 0 /\ partition.end_date = 5
    /\ partition.interval_days = 2
    /\ Len(partition.windows) = 3
    /\ partition.windows[3].to - partition.windows[3].from = 1
    /\ partition.windows[1].repos = <<1>>
    /\ partition.windows[3].repos = <<2>>
    /\ partition.all_results = <<1, 2>>

\* C32: no calendar day is queried by two date windows of
\* partition_and_search, the range created:start..end taking in both its
\* ends, so a repository appears at most once in the raw code-host artifact.
C32_NoDayTwice ==
    /\ partition.pc # "idle" =>
          \A i, j \in 1..Len(partition.windows) :
             i < j =>
                ~\E d \in Days :
                    /\ partition.windows[i].from <= d /\ d <= partition.windows[i].to
                    /\ partition.windows[j].from <= d /\ d <= partition.windows[j].to
    /\ partition.pc = "saved" =>
          LET data == fs[<<RawName("github"), KEYWORD>>].data
          IN  \A i, j \in 1..Len(data) : i # j => data[i].id # data[j].id

\* the paths an item of a tree of MaxNodes items can have
TreePaths == UNION {[1..n -> 1..MaxNodes] : n \in 1..MaxNodes}

RECURSIVE IsFileAt(_, _)
\* p leads from dir to a file through directories whose listings were got
IsFileAt(dir, p) ==
    /\ dir.ok
    /\ p[1] <= Len(dir.items)
    /\ IF Len(p) = 1 THEN dir.items[p[1]].type = "file"
       ELSE /\ dir.items[p[1]].type = "directory"
            /\ IsFileAt(dir.items[p[1]], Tail(p))

\* p comes before q in the depth-first order of the listings
Before(p, q) ==
    \E k \in 1..Len(p) :
       /\ k <= Len(q)
       /\ p[k] < q[k]
       /\ \A m \in 1..(k - 1) : p[m] = q[m]

====
